---------------------------- MODULE Spec2Model ----------------------------
(***************************************************************************)
(* Model of bcdi/preprocessing/preprocessing_utils.py: the centering /     *)
(* crop / pad engine center_fft and the helpers it calls.                  *)
(*                                                                         *)
(* Conventions.  Python indices are 0-based and are kept 0-based: a 3D     *)
(* numpy array is a record [shape |-> <<nz, ny, nx>>, v |-> f] where f is  *)
(* a function on the index triples of that shape; a 1D array is a record   *)
(* [n |-> length, v |-> function on 0..n-1].  A Python exception is the    *)
(* name of its class in the field exc of a result ("none" = no exception). *)
(***************************************************************************)
EXTENDS Integers, Sequences, FiniteSets, TLC

(***************************************************************************)
(* Bounds of the model (not program constants).                            *)
(***************************************************************************)
SmallN == 2
MaxN == 9
MaxPad == 12
MinPad == 4
MaxSearch == 16
MaxNumber == 30
MaxWidth == 2
MaxFrames == 3
MaxStack == 2
MaxFlag == 2
MaxBrush == 1
MaxVmax == 2
MaxVertices == 1

(***************************************************************************)
(* Program constants.                                                      *)
(***************************************************************************)
FFT_MAXPRIME == 7
FFT_DIVIDERS == <<2>>
USED == 1
UNUSED == 0
PADDED == -1

(***************************************************************************)
(* Python / numpy primitives.                                              *)
(***************************************************************************)
Abs(x) == IF x < 0 THEN -x ELSE x
Min2(a, b) == IF a <= b THEN a ELSE b
Max2(a, b) == IF a >= b THEN a ELSE b

\* int(h / 2) for an integer h: Python's "/" is the exact quotient here and
\* int() truncates towards zero.
IntOfHalf(h) == IF h >= 0 THEN h \div 2 ELSE -((-h) \div 2)

\* round(num / den), den > 0: Python 3 rounds halves to the even integer.
PyRound(num, den) ==
    LET q == num \div den
        r == num % den
    IN  IF 2 * r < den THEN q
        ELSE IF 2 * r > den THEN q + 1
        ELSE IF q % 2 = 0 THEN q ELSE q + 1

\* Bounds [lo, hi) selected by the slice start:stop on an axis of length n
\* (negative indices count from the end, both ends are clipped to 0..n).
SliceIdx(k, n) == IF k < 0 THEN Max2(k + n, 0) ELSE Min2(k, n)
SliceLo(start, stop, n) == SliceIdx(start, n)
SliceLen(start, stop, n) == Max2(SliceIdx(stop, n) - SliceIdx(start, n), 0)

Idx3(shape) == (0 .. shape[1] - 1) \X (0 .. shape[2] - 1) \X (0 .. shape[3] - 1)
Full3(shape, c) == [shape |-> shape, v |-> [i \in Idx3(shape) |-> c]]
Arr1(n, f(_)) == [n |-> n, v |-> [i \in 0 .. n - 1 |-> f(i)]]
Zeros6 == <<0, 0, 0, 0, 0, 0>>

\* a[z0:z1, y0:y1, x0:x1]
Slice3(a, z0, z1, y0, y1, x0, x1) ==
    LET lo == <<SliceLo(z0, z1, a.shape[1]), SliceLo(y0, y1, a.shape[2]),
                SliceLo(x0, x1, a.shape[3])>>
        sh == <<SliceLen(z0, z1, a.shape[1]), SliceLen(y0, y1, a.shape[2]),
                SliceLen(x0, x1, a.shape[3])>>
    IN  [shape |-> sh,
         v |-> [i \in Idx3(sh) |-> a.v[<<i[1] + lo[1], i[2] + lo[2], i[3] + lo[3]>>]]]

\* q[start:stop] on a 1D array
Slice1(q, start, stop) ==
    LET lo == SliceLo(start, stop, q.n)
    IN  Arr1(SliceLen(start, stop, q.n), LAMBDA i : q.v[i + lo])

\* v[start:stop] = c on a 1D array (in place: the result is the new content)
Fill1(q, start, stop, c) ==
    LET lo == SliceLo(start, stop, q.n)
        ln == SliceLen(start, stop, q.n)
    IN  [q EXCEPT !.v = [i \in 0 .. q.n - 1 |->
                             IF lo <= i /\ i < lo + ln THEN c ELSE q.v[i]]]

(***************************************************************************)
(* primes, try_smaller_primes, smaller_primes, higher_primes               *)
(***************************************************************************)
RECURSIVE primes_inner(_, _, _)
primes_inner(number, i, list_primes) ==
    IF number % i = 0
    THEN primes_inner(number \div i, i, Append(list_primes, i))
    ELSE <<number, list_primes>>

RECURSIVE primes_outer(_, _, _)
primes_outer(number, i, list_primes) ==
    IF i * i <= number
    THEN LET r == primes_inner(number, i, list_primes)
         IN  primes_outer(r[1], i + 1, r[2])
    ELSE IF number > 1 THEN Append(list_primes, number) ELSE list_primes

\* primes(number), number > 0 (the assertion of the source)
primes(number) == primes_outer(number, 2, <<1>>)

SeqMax(s) == CHOOSE m \in {s[k] : k \in DOMAIN s} : \A k \in DOMAIN s : s[k] <= m

try_smaller_primes(number, maxprime, required_dividers) ==
    IF SeqMax(primes(number)) > maxprime THEN FALSE
    ELSE \A k \in DOMAIN required_dividers : number % required_dividers[k] = 0

\* Results of a call: a value, or the class of the exception raised.
Ok(val) == [exc |-> "none", val |-> val]
Raise(cls) == [exc |-> cls, val |-> <<>>]

\* A faulty loop of smaller_primes: it stops on the first number whose prime
\* factors are small enough, without looking at the required dividers.
RECURSIVE smaller_primes_loop_no_dividers(_, _, _)
smaller_primes_loop_no_dividers(i, maxprime, required_dividers) ==
    IF SeqMax(primes(i)) <= maxprime THEN i
    ELSE IF i - 1 = 0 THEN 0
    ELSE smaller_primes_loop_no_dividers(i - 1, maxprime, required_dividers)

\* the loop "while try_smaller_primes(i) is False: i = i - 1; if i == 0: return 0"
RECURSIVE smaller_primes_loop(_, _, _)
smaller_primes_loop(i, maxprime, required_dividers) ==
    IF try_smaller_primes(i, maxprime, required_dividers) THEN i
    ELSE IF i - 1 = 0 THEN 0
    ELSE smaller_primes_loop(i - 1, maxprime, required_dividers)

\* smaller_primes on an integer
smaller_primes(number, maxprime, required_dividers) ==
    IF ~(number > 1 /\ maxprime <= number) THEN Raise("AssertionError")
    ELSE Ok(smaller_primes_loop(number, maxprime, required_dividers))

\* smaller_primes on a list, a tuple or an array (kind) of integers: the
\* elements are treated in order; the value is [kind, items], or the integer
\* 0 (kind "int") as soon as the search of one element reaches 0.
\* The elements of an array of integers are numpy integers, which are not
\* instances of int: primes (line 1109) raises TypeError on the first one.
RECURSIVE smaller_primes_from(_, _, _, _, _, _)
smaller_primes_from(kind, number, k, vn, maxprime, required_dividers) ==
    IF k > Len(number)
    THEN Ok([kind |-> IF kind = "ndarray" THEN "ndarray" ELSE "list", items |-> vn])
    ELSE IF ~(number[k] > 1 /\ maxprime <= number[k]) THEN Raise("AssertionError")
    ELSE IF kind = "ndarray" THEN Raise("TypeError")
    ELSE LET i == smaller_primes_loop(number[k], maxprime, required_dividers)
         IN  IF i = 0 THEN Ok([kind |-> "int", items |-> <<0>>])
             ELSE smaller_primes_from(kind, number, k + 1, Append(vn, i),
                                      maxprime, required_dividers)

smaller_primes_seq(kind, number, maxprime, required_dividers) ==
    smaller_primes_from(kind, number, 1, <<>>, maxprime, required_dividers)

\* the loop "while try_smaller_primes(number) is False: number = number + 1;
\* if number == limit: return limit".  The loop has no upper end in the
\* source; the model follows it for MaxSearch steps and reports -1 when it
\* is still running then.
RECURSIVE higher_primes_loop(_, _, _, _, _)
higher_primes_loop(number, limit, maxprime, required_dividers, fuel) ==
    IF try_smaller_primes(number, maxprime, required_dividers) THEN number
    ELSE IF number + 1 = limit THEN limit
    ELSE IF fuel = 0 THEN -1
    ELSE higher_primes_loop(number + 1, limit, maxprime, required_dividers, fuel - 1)

\* higher_primes on an integer
higher_primes(number, maxprime, required_dividers) ==
    IF ~(number > 1 /\ maxprime <= number) THEN Raise("AssertionError")
    ELSE Ok(higher_primes_loop(number, number, maxprime, required_dividers, MaxSearch))

\* higher_primes on a list, a tuple or an array (kind) of integers; the
\* value is [kind, items], or the integer -1 (kind "int") when the search
\* of one element is still running after MaxSearch steps.
RECURSIVE higher_primes_from(_, _, _, _, _, _)
higher_primes_from(kind, number, k, vn, maxprime, required_dividers) ==
    IF k > Len(number)
    THEN Ok([kind |-> IF kind = "ndarray" THEN "ndarray" ELSE "list", items |-> vn])
    ELSE IF ~(number[k] > 1 /\ maxprime <= number[k]) THEN Raise("AssertionError")
    ELSE IF kind = "ndarray" THEN Raise("TypeError")
    ELSE LET i == higher_primes_loop(number[k], number[k], maxprime,
                                     required_dividers, MaxSearch)
         IN  IF i = -1 THEN Ok([kind |-> "int", items |-> <<-1>>])
             ELSE higher_primes_from(kind, number, k + 1, Append(vn, i),
                                     maxprime, required_dividers)

higher_primes_seq(kind, number, maxprime, required_dividers) ==
    higher_primes_from(kind, number, 1, <<>>, maxprime, required_dividers)

\* A value given to or returned by the number utilities: an integer n is
\* [kind |-> "int", items |-> <<n>>], a list, a tuple or an array of integers
\* is [kind |-> "list" | "tuple" | "ndarray", items |-> its elements].
IntValue(n) == [kind |-> "int", items |-> <<n>>]

\* the result of a scalar branch as a value
AsValue(r) == IF r.exc # "none" THEN r ELSE Ok(IntValue(r.val))

\* if (type(number) is list) or (type(number) is tuple) or (type(number) is np.ndarray)
smaller_primes_any(number, maxprime, required_dividers) ==
    IF number.kind \in {"list", "tuple", "ndarray"}
    THEN smaller_primes_seq(number.kind, number.items, maxprime, required_dividers)
    ELSE AsValue(smaller_primes(number.items[1], maxprime, required_dividers))

higher_primes_any(number, maxprime, required_dividers) ==
    IF number.kind \in {"list", "tuple", "ndarray"}
    THEN higher_primes_seq(number.kind, number.items, maxprime, required_dividers)
    ELSE AsValue(higher_primes(number.items[1], maxprime, required_dividers))

\* primes with its two tests: TypeError unless number is an int, and the
\* assertion number > 0
primes_checked(number) ==
    IF number.kind # "int" THEN Raise("TypeError")
    ELSE IF ~(number.items[1] > 0) THEN Raise("AssertionError")
    ELSE Ok(primes(number.items[1]))

\* try_smaller_primes calls primes first
try_smaller_primes_checked(number, maxprime, required_dividers) ==
    LET p == primes_checked(number)
    IN  IF p.exc # "none" THEN p
        ELSE Ok(try_smaller_primes(number.items[1], maxprime, required_dividers))

(***************************************************************************)
(* zero_pad                                                                *)
(***************************************************************************)
\* A faulty zero_pad: the array is copied at the offset of the trailing
\* padding, newobj[z1:z1+nbz, y1:y1+nby, x1:x1+nbx] = array.
zero_pad_at_end(array, padding_width, mask_flag) ==
    IF Len(array.shape) # 3 THEN Raise("ValueError")
    ELSE
    LET n == array.shape
        newshape == [k \in 1 .. 3 |-> n[k] + padding_width[2 * k - 1] + padding_width[2 * k]]
        lo == [k \in 1 .. 3 |-> padding_width[2 * k]]
        fill == IF mask_flag THEN 1 ELSE 0
    IN  IF \E k \in 1 .. 3 : newshape[k] < 0 \/ lo[k] < 0 THEN Raise("ValueError")
        ELSE Ok([shape |-> newshape,
                 v |-> [i \in Idx3(newshape) |->
                          IF \A k \in 1 .. 3 : lo[k] <= i[k] /\ i[k] < lo[k] + n[k]
                          THEN array.v[<<i[1] - lo[1], i[2] - lo[2], i[3] - lo[3]>>]
                          ELSE fill]])

\* newobj = ones/zeros(shape + padding); newobj[z0:z0+nbz, ...] = array.
\* numpy refuses a negative dimension, and an assignment whose source does
\* not have the target's extent on an axis (unless the source extent is 1,
\* which is broadcast): both are ValueError.
zero_pad(array, padding_width, mask_flag) ==
    IF Len(array.shape) # 3 THEN Raise("ValueError")
    ELSE
    LET n == array.shape
        newshape == [k \in 1 .. 3 |-> n[k] + padding_width[2 * k - 1] + padding_width[2 * k]]
        lo == [k \in 1 .. 3 |->
                 SliceLo(padding_width[2 * k - 1], padding_width[2 * k - 1] + n[k], newshape[k])]
        ln == [k \in 1 .. 3 |->
                 SliceLen(padding_width[2 * k - 1], padding_width[2 * k - 1] + n[k], newshape[k])]
        fill == IF mask_flag THEN 1 ELSE 0
        src(i) == [k \in 1 .. 3 |-> IF n[k] = 1 THEN 0 ELSE i[k] - lo[k]]
    IN  IF \E k \in 1 .. 3 : newshape[k] < 0 THEN Raise("ValueError")
        ELSE IF \E k \in 1 .. 3 : ln[k] # n[k] /\ n[k] # 1 THEN Raise("ValueError")
        ELSE Ok([shape |-> newshape,
                 v |-> [i \in Idx3(newshape) |->
                          IF \A k \in 1 .. 3 : lo[k] <= i[k] /\ i[k] < lo[k] + ln[k]
                          THEN array.v[src(i)] ELSE fill]])

(***************************************************************************)
(* Peak position: np.unravel_index(abs(data).argmax(), data.shape) and     *)
(* scipy.ndimage center_of_mass(data)                                      *)
(***************************************************************************)
RECURSIVE SumFn(_, _)
SumFn(f, S) ==
    IF S = {} THEN 0
    ELSE LET x == CHOOSE x \in S : TRUE IN f[x] + SumFn(f, S \ {x})

\* position of an index triple in C order, and back
Ravel(i, shape) == (i[1] * shape[2] + i[2]) * shape[3] + i[3]
Unravel(r, shape) ==
    <<r \div (shape[2] * shape[3]), (r \div shape[3]) % shape[2], r % shape[3]>>

\* the first position, in C order, of the largest absolute value
argmax_abs(data) ==
    LET vals == {Abs(data.v[i]) : i \in Idx3(data.shape)}
        m == CHOOSE x \in vals : \A y \in vals : y <= x
        at == {Ravel(i, data.shape) : i \in {j \in Idx3(data.shape) : Abs(data.v[j]) = m}}
    IN  Unravel(CHOOSE r \in at : \A r2 \in at : r <= r2, data.shape)

\* A position as three fractions num[k] / den; nan when the division is 0/0.
Position(num, den) == [nan |-> den = 0, num |-> num, den |-> den]

\* sum(data * grid_k) / sum(data) on each axis
center_of_mass(data) ==
    LET cells == {i \in Idx3(data.shape) : data.v[i] # 0}
        moment(k) == SumFn([i \in cells |-> i[k] * data.v[i]], cells)
    IN  Position(<<moment(1), moment(2), moment(3)>>, SumFn(data.v, cells))

(***************************************************************************)
(* center_fft                                                              *)
(*                                                                         *)
(* A call ends in a record: exc, the five returned values (when exc is     *)
(* "none"), caller_frames, the content of the caller's frames_logical      *)
(* array after the call (the crop branches write into it in place),        *)
(* zero_pad_calls, the padding_width of each call of zero_pad it made, and *)
(* what the call printed: peak (iz0, iy0, ix0), box (the largest symmetric *)
(* box) and option, the fft_option it went on with; these three are empty  *)
(* when the call ended before line 116.                                    *)
(* Absent keyword arguments are the empty tuple, as in the source.         *)
(***************************************************************************)
Return(data, mask, pad_width, q_values, frames_logical, caller_frames) ==
    [exc |-> "none", data |-> data, mask |-> mask, pad_width |-> pad_width,
     q_values |-> q_values, frames_logical |-> frames_logical,
     caller_frames |-> caller_frames, zero_pad_calls |-> <<>>,
     peak |-> <<>>, box |-> <<>>, option |-> ""]

Fail(cls, caller_frames) ==
    [exc |-> cls, data |-> <<>>, mask |-> <<>>, pad_width |-> <<>>,
     q_values |-> <<>>, frames_logical |-> <<>>, caller_frames |-> caller_frames,
     zero_pad_calls |-> <<>>, peak |-> <<>>, box |-> <<>>, option |-> ""]

\* seq[k] with Python's 0-based index k >= 0
Get(seq, k) == seq[k + 1]

\* A faulty crop: the frames cropped away are not marked.
crop_frames_kept(frames_logical, lo, hi, nbz) == frames_logical

\* frames_logical[0:lo] = 0 if lo > 0; frames_logical[hi:] = 0 if hi < nbz
crop_frames(frames_logical, lo, hi, nbz) ==
    LET f1 == IF lo > 0 THEN Fill1(frames_logical, 0, lo, UNUSED) ELSE frames_logical
    IN  IF hi < nbz THEN Fill1(f1, hi, f1.n, UNUSED) ELSE f1

\* [int(min(pad_size/2 - i0, pad_size - n)), int(min(pad_size/2 - n + i0, pad_size - n))]
sym_pad_pair(pad_size, i0, n) ==
    <<IntOfHalf(Min2(pad_size - 2 * i0, 2 * (pad_size - n))),
      IntOfHalf(Min2(pad_size - 2 * n + 2 * i0, 2 * (pad_size - n)))>>

\* [int((n1 - n + (par % 2)) / 2), int((n1 - n + 1) / 2 - ((n1 - n) % 2))]
\* where par is the number whose parity the source adds to the low side
asym_pad_pair(n1, n, par) ==
    <<IntOfHalf(n1 - n + (par % 2)),
      IntOfHalf(n1 - n + 1 - 2 * ((n1 - n) % 2))>>

\* pad_width = list(map(lambda value: max(value, 0), pad_width))
remove_negative(pad_width) == [k \in DOMAIN pad_width |-> Max2(pad_width[k], 0)]

\* dq = q[1] - q[0]; q0 = q[0] - low * dq; q = q0 + np.arange(n) * dq
extend_q(q, low, n) ==
    LET dq == q.v[1] - q.v[0]
    IN  Arr1(n, LAMBDA i : q.v[0] - low * dq + i * dq)

\* A faulty pad_frames: the measured frames are copied to the start of the new
\* array, whatever the number of frames padded before them.
pad_frames_at_start(frames_logical, newlen, low, nbz) ==
    Ok(Arr1(newlen, LAMBDA i :
              IF i < nbz
              THEN frames_logical.v[IF frames_logical.n = 1 THEN 0 ELSE i]
              ELSE PADDED))

\* A faulty pad_frames: the new array stops after the measured frames, it has
\* no entry for the frames padded after them.
pad_frames_short(frames_logical, newlen, low, nbz) ==
    Ok(Arr1(low + nbz, LAMBDA i :
              IF low <= i
              THEN frames_logical.v[IF frames_logical.n = 1 THEN 0 ELSE i - low]
              ELSE PADDED))

\* temp_frames = -1 * np.ones(data.shape[0])
\* temp_frames[pad_width[0]:pad_width[0] + nbz] = frames_logical
pad_frames(frames_logical, newlen, low, nbz) ==
    LET lo == SliceLo(low, low + nbz, newlen)
        ln == SliceLen(low, low + nbz, newlen)
    IN  IF ln # frames_logical.n /\ frames_logical.n # 1 THEN Raise("ValueError")
        ELSE Ok(Arr1(newlen, LAMBDA i :
                       IF lo <= i /\ i < lo + ln
                       THEN frames_logical.v[IF frames_logical.n = 1 THEN 0 ELSE i - lo]
                       ELSE PADDED))

\* The part the six pad branches share: zero_pad of data and of mask, then
\* the new frames_logical, then the q values q (a result: the branch's own
\* q code, IndexError when it reads q[1] of a shorter array).
\* c is the context of the call: its arguments and the values of lines 108-116.
pad_branch(c, data, mask, pad_width, q) ==
    LET d == zero_pad(data, pad_width, FALSE)
        m == zero_pad(mask, pad_width, TRUE)
        f == pad_frames(c.frames_logical, d.val.shape[1], Get(pad_width, 0), c.nbz)
        r == IF d.exc # "none" THEN Fail(d.exc, c.frames_logical)
             ELSE IF m.exc # "none" THEN Fail(m.exc, c.frames_logical)
             ELSE IF f.exc # "none" THEN Fail(f.exc, c.frames_logical)
             ELSE IF q.exc # "none" THEN Fail(q.exc, c.frames_logical)
             ELSE Return(d.val, m.val, pad_width, q.val, f.val, c.frames_logical)
    IN  [r EXCEPT !.zero_pad_calls =
                    IF d.exc # "none" THEN <<pad_width>> ELSE <<pad_width, pad_width>>]

\* the q arrays of the call
qx_of(c) == Get(c.q_values, 0)
qz_of(c) == Get(c.q_values, 1)
qy_of(c) == Get(c.q_values, 2)

\* fft_option == 'crop_symmetric_ZYX'
crop_symmetric_ZYX(c) ==
    LET sp == smaller_primes_seq("tuple", <<c.max_nz, c.max_ny, c.max_nx>>,
                                 FFT_MAXPRIME, FFT_DIVIDERS)
        nz1 == sp.val.items[1]
        ny1 == sp.val.items[2]
        nx1 == sp.val.items[3]
        frames == crop_frames(c.frames_logical, c.iz0 - nz1 \div 2, c.iz0 + nz1 \div 2, c.nbz)
    IN  IF sp.exc # "none" THEN Fail(sp.exc, c.frames_logical)
        ELSE IF sp.val.kind = "int" THEN Fail("TypeError", c.frames_logical)
        ELSE Return(
            Slice3(c.data, c.iz0 - nz1 \div 2, c.iz0 + nz1 \div 2,
                   c.iy0 - ny1 \div 2, c.iy0 + ny1 \div 2,
                   c.ix0 - nx1 \div 2, c.ix0 + nx1 \div 2),
            Slice3(c.mask, c.iz0 - nz1 \div 2, c.iz0 + nz1 \div 2,
                   c.iy0 - ny1 \div 2, c.iy0 + ny1 \div 2,
                   c.ix0 - nx1 \div 2, c.ix0 + nx1 \div 2),
            Zeros6,
            IF c.q_values = <<>> THEN <<>>
            ELSE <<Slice1(qx_of(c), c.iz0 - nz1 \div 2, c.iz0 + nz1 \div 2),
                   Slice1(qz_of(c), c.iy0 - ny1 \div 2, c.iy0 + ny1 \div 2),
                   Slice1(qy_of(c), c.ix0 - nx1 \div 2, c.ix0 + nx1 \div 2)>>,
            frames, frames)

\* the asymmetric crop taken with the symmetric crop's window
crop_asymmetric_as_symmetric(c) == crop_symmetric_ZYX(c)

\* fft_option == 'crop_asymmetric_ZYX'
crop_asymmetric_ZYX(c) ==
    LET sp == smaller_primes_seq("tuple", <<c.nbz, c.nby, c.nbx>>,
                                 FFT_MAXPRIME, FFT_DIVIDERS)
        nz1 == sp.val.items[1]
        ny1 == sp.val.items[2]
        nx1 == sp.val.items[3]
        z0 == c.nbz \div 2 - nz1 \div 2
        z1 == c.nbz \div 2 + nz1 \div 2
        y0 == c.nby \div 2 - ny1 \div 2
        y1 == c.nby \div 2 + ny1 \div 2
        x0 == c.nbx \div 2 - nx1 \div 2
        x1 == c.nbx \div 2 + nx1 \div 2
        frames == crop_frames(c.frames_logical, z0, z1, c.nbz)
    IN  IF sp.exc # "none" THEN Fail(sp.exc, c.frames_logical)
        ELSE IF sp.val.kind = "int" THEN Fail("TypeError", c.frames_logical)
        ELSE Return(
            Slice3(c.data, z0, z1, y0, y1, x0, x1),
            Slice3(c.mask, z0, z1, y0, y1, x0, x1),
            Zeros6,
            IF c.q_values = <<>> THEN <<>>
            ELSE <<Slice1(qx_of(c), z0, z1), Slice1(qz_of(c), y0, y1),
                   Slice1(qy_of(c), x0, x1)>>,
            frames, frames)

\* "if pad_size[k] != higher_primes(pad_size[k], maxprime=7, required_dividers=(2,)):
\*      raise ValueError": the exception of the check, "none" when it passes
check_pad_size(pad_size, k) ==
    LET hp == higher_primes(Get(pad_size, k), FFT_MAXPRIME, FFT_DIVIDERS)
    IN  IF hp.exc # "none" THEN hp.exc
        ELSE IF Get(pad_size, k) # hp.val THEN "ValueError"
        ELSE "none"

\* the q values of the branches that pad z to n frames and slice y and x
q_pad_Z_crop_YX(c, pad_width, n, ny1, nx1) ==
    IF c.q_values = <<>> THEN Ok(<<>>)
    ELSE IF qx_of(c).n < 2 THEN Raise("IndexError")
    ELSE Ok(<<extend_q(qx_of(c), Get(pad_width, 0), n),
              Slice1(qz_of(c), c.iy0 - ny1 \div 2, c.iy0 + ny1 \div 2),
              Slice1(qy_of(c), c.ix0 - nx1 \div 2, c.ix0 + nx1 \div 2)>>)

\* the q values of the branches that pad z to n frames and keep y and x
q_pad_Z(c, pad_width, n) ==
    IF c.q_values = <<>> THEN Ok(<<>>)
    ELSE IF qx_of(c).n < 2 THEN Raise("IndexError")
    ELSE Ok(<<extend_q(qx_of(c), Get(pad_width, 0), n), qz_of(c), qy_of(c)>>)

\* the q values of the branches that pad the three axes to nz, ny, nx:
\* qy (axis 2) is shifted by pad_width[2] and qz (axis 1) by pad_width[1]
q_pad_ZYX(c, pad_width, nz, ny, nx) ==
    IF c.q_values = <<>> THEN Ok(<<>>)
    ELSE IF qx_of(c).n < 2 \/ qy_of(c).n < 2 \/ qz_of(c).n < 2 THEN Raise("IndexError")
    ELSE Ok(<<extend_q(qx_of(c), Get(pad_width, 0), nz),
              extend_q(qz_of(c), Get(pad_width, 1), ny),
              extend_q(qy_of(c), Get(pad_width, 2), nx)>>)

\* fft_option == 'pad_symmetric_Z_crop_YX'
pad_symmetric_Z_crop_YX(c) ==
    LET sp == smaller_primes_seq("tuple", <<c.max_ny, c.max_nx>>, FFT_MAXPRIME, FFT_DIVIDERS)
        ny1 == sp.val.items[1]
        nx1 == sp.val.items[2]
        z == sym_pad_pair(Get(c.pad_size, 0), c.iz0, c.nbz)
        pad_width == <<z[1], z[2], 0, 0, 0, 0>>
    IN  IF Len(c.pad_size) # 3 THEN Fail("ValueError", c.frames_logical)
        ELSE IF check_pad_size(c.pad_size, 0) # "none"
        THEN Fail(check_pad_size(c.pad_size, 0), c.frames_logical)
        ELSE IF sp.exc # "none" THEN Fail(sp.exc, c.frames_logical)
        ELSE IF sp.val.kind = "int" THEN Fail("TypeError", c.frames_logical)
        ELSE pad_branch(c,
                 Slice3(c.data, 0, c.nbz, c.iy0 - ny1 \div 2, c.iy0 + ny1 \div 2,
                        c.ix0 - nx1 \div 2, c.ix0 + nx1 \div 2),
                 Slice3(c.mask, 0, c.nbz, c.iy0 - ny1 \div 2, c.iy0 + ny1 \div 2,
                        c.ix0 - nx1 \div 2, c.ix0 + nx1 \div 2),
                 pad_width,
                 q_pad_Z_crop_YX(c, pad_width, Get(c.pad_size, 0), ny1, nx1))

\* fft_option == 'pad_asymmetric_Z_crop_YX'
pad_asymmetric_Z_crop_YX(c) ==
    LET sp == smaller_primes_seq("tuple", <<c.max_ny, c.max_nx>>, FFT_MAXPRIME, FFT_DIVIDERS)
        ny1 == sp.val.items[1]
        nx1 == sp.val.items[2]
        hp == higher_primes(c.nbz, FFT_MAXPRIME, FFT_DIVIDERS)
        nz1 == hp.val
        z == asym_pad_pair(nz1, c.nbz, nz1 - c.nbz)
        pad_width == <<z[1], z[2], 0, 0, 0, 0>>
    IN  IF sp.exc # "none" THEN Fail(sp.exc, c.frames_logical)
        ELSE IF sp.val.kind = "int" THEN Fail("TypeError", c.frames_logical)
        ELSE IF hp.exc # "none" THEN Fail(hp.exc, c.frames_logical)
        ELSE pad_branch(c,
                 Slice3(c.data, 0, c.nbz, c.iy0 - ny1 \div 2, c.iy0 + ny1 \div 2,
                        c.ix0 - nx1 \div 2, c.ix0 + nx1 \div 2),
                 Slice3(c.mask, 0, c.nbz, c.iy0 - ny1 \div 2, c.iy0 + ny1 \div 2,
                        c.ix0 - nx1 \div 2, c.ix0 + nx1 \div 2),
                 pad_width,
                 q_pad_Z_crop_YX(c, pad_width, nz1, ny1, nx1))

\* fft_option == 'pad_symmetric_Z'
pad_symmetric_Z(c) ==
    LET z == sym_pad_pair(Get(c.pad_size, 0), c.iz0, c.nbz)
        pad_width == <<z[1], z[2], 0, 0, 0, 0>>
    IN  IF Len(c.pad_size) # 3 THEN Fail("ValueError", c.frames_logical)
        ELSE IF check_pad_size(c.pad_size, 0) # "none"
        THEN Fail(check_pad_size(c.pad_size, 0), c.frames_logical)
        ELSE pad_branch(c, c.data, c.mask, pad_width,
                        q_pad_Z(c, pad_width, Get(c.pad_size, 0)))

\* fft_option == 'pad_asymmetric_Z'
pad_asymmetric_Z(c) ==
    LET hp == higher_primes(c.nbz, FFT_MAXPRIME, FFT_DIVIDERS)
        nz1 == hp.val
        z == asym_pad_pair(nz1, c.nbz, nz1 - c.nbz)
        pad_width == <<z[1], z[2], 0, 0, 0, 0>>
    IN  IF hp.exc # "none" THEN Fail(hp.exc, c.frames_logical)
        ELSE pad_branch(c, c.data, c.mask, pad_width, q_pad_Z(c, pad_width, nz1))

\* fft_option == 'pad_symmetric_ZYX'
pad_symmetric_ZYX(c) ==
    LET z == sym_pad_pair(Get(c.pad_size, 0), c.iz0, c.nbz)
        y == sym_pad_pair(Get(c.pad_size, 1), c.iy0, c.nby)
        x == sym_pad_pair(Get(c.pad_size, 2), c.ix0, c.nbx)
        pad_width == remove_negative(<<z[1], z[2], y[1], y[2], x[1], x[2]>>)
        bad == {k \in 0 .. 2 : check_pad_size(c.pad_size, k) # "none"}
        first == CHOOSE k \in bad : \A j \in bad : k <= j
    IN  IF Len(c.pad_size) # 3 THEN Fail("ValueError", c.frames_logical)
        ELSE IF bad # {} THEN Fail(check_pad_size(c.pad_size, first), c.frames_logical)
        ELSE pad_branch(c, c.data, c.mask, pad_width,
                        q_pad_ZYX(c, pad_width, Get(c.pad_size, 0), Get(c.pad_size, 1),
                                  Get(c.pad_size, 2)))

\* fft_option == 'pad_asymmetric_ZYX': the low pad of y adds the parity of
\* pad_size[1] - nby, which reads pad_size (IndexError when it has no entry 1)
pad_asymmetric_ZYX(c) ==
    LET hz == higher_primes(c.nbz, FFT_MAXPRIME, FFT_DIVIDERS)
        hy == higher_primes(c.nby, FFT_MAXPRIME, FFT_DIVIDERS)
        hx == higher_primes(c.nbx, FFT_MAXPRIME, FFT_DIVIDERS)
        nz1 == hz.val
        ny1 == hy.val
        nx1 == hx.val
        z == asym_pad_pair(nz1, c.nbz, nz1 - c.nbz)
        y == asym_pad_pair(ny1, c.nby, Get(c.pad_size, 1) - c.nby)
        x == asym_pad_pair(nx1, c.nbx, nx1 - c.nbx)
        pad_width == <<z[1], z[2], y[1], y[2], x[1], x[2]>>
    IN  IF hz.exc # "none" THEN Fail(hz.exc, c.frames_logical)
        ELSE IF hy.exc # "none" THEN Fail(hy.exc, c.frames_logical)
        ELSE IF hx.exc # "none" THEN Fail(hx.exc, c.frames_logical)
        ELSE IF Len(c.pad_size) < 2 THEN Fail("IndexError", c.frames_logical)
        ELSE pad_branch(c, c.data, c.mask, pad_width,
                        q_pad_ZYX(c, pad_width, nz1, ny1, nx1))

\* fft_option == 'do_nothing': the crop to fix_size is entered when fix_size
\* has 3 entries, and then reads fix_size[3] (IndexError)
do_nothing(c) ==
    LET fs == c.fix_size
        z_pan == Get(fs, 1) - Get(fs, 0)
        y_pan == Get(fs, 3) - Get(fs, 2)
        x_pan == Get(fs, 5) - Get(fs, 4)
        frames == crop_frames(c.frames_logical, Get(fs, 0), Get(fs, 1), c.nbz)
    IN  IF Len(fs) = 3
        THEN IF Len(fs) < 6 THEN Fail("IndexError", c.frames_logical)
             ELSE IF z_pan > c.nbz \/ y_pan > c.nby \/ x_pan > c.nbx
                     \/ Get(fs, 1) > c.nbz \/ Get(fs, 3) > c.nby \/ Get(fs, 5) > c.nbx
             THEN Fail("ValueError", c.frames_logical)
             ELSE Return(
                 Slice3(c.data, Get(fs, 0), Get(fs, 1), Get(fs, 2), Get(fs, 3),
                        Get(fs, 4), Get(fs, 5)),
                 Slice3(c.mask, Get(fs, 0), Get(fs, 1), Get(fs, 2), Get(fs, 3),
                        Get(fs, 4), Get(fs, 5)),
                 Zeros6,
                 IF c.q_values = <<>> THEN <<>>
                 ELSE <<Slice1(qx_of(c), Get(fs, 0), Get(fs, 1)),
                        Slice1(qz_of(c), Get(fs, 2), Get(fs, 3)),
                        Slice1(qy_of(c), Get(fs, 4), Get(fs, 5))>>,
                 frames, frames)
        ELSE Return(c.data, c.mask, Zeros6, c.q_values, c.frames_logical, c.frames_logical)

FftOptions ==
    {"crop_symmetric_ZYX", "crop_asymmetric_ZYX", "pad_symmetric_Z_crop_YX",
     "pad_asymmetric_Z_crop_YX", "pad_symmetric_Z", "pad_asymmetric_Z",
     "pad_symmetric_ZYX", "pad_asymmetric_ZYX", "do_nothing"}

\* A faulty dispatch: 'crop_asymmetric_ZYX' runs the branch of
\* 'pad_asymmetric_Z', and 'pad_asymmetric_Z' the branch of 'crop_asymmetric_ZYX'.
apply_fft_option_crossed(fft_option, c) ==
    CASE fft_option = "crop_symmetric_ZYX" -> crop_symmetric_ZYX(c)
      [] fft_option = "crop_asymmetric_ZYX" -> pad_asymmetric_Z(c)
      [] fft_option = "pad_symmetric_Z_crop_YX" -> pad_symmetric_Z_crop_YX(c)
      [] fft_option = "pad_asymmetric_Z_crop_YX" -> pad_asymmetric_Z_crop_YX(c)
      [] fft_option = "pad_symmetric_Z" -> pad_symmetric_Z(c)
      [] fft_option = "pad_asymmetric_Z" -> crop_asymmetric_ZYX(c)
      [] fft_option = "pad_symmetric_ZYX" -> pad_symmetric_ZYX(c)
      [] fft_option = "pad_asymmetric_ZYX" -> pad_asymmetric_ZYX(c)
      [] fft_option = "do_nothing" -> do_nothing(c)
      [] OTHER -> Fail("ValueError", c.frames_logical)

\* the branch of lines 121-343 chosen by fft_option
apply_fft_option(fft_option, c) ==
    CASE fft_option = "crop_symmetric_ZYX" -> crop_symmetric_ZYX(c)
      [] fft_option = "crop_asymmetric_ZYX" -> crop_asymmetric_ZYX(c)
      [] fft_option = "pad_symmetric_Z_crop_YX" -> pad_symmetric_Z_crop_YX(c)
      [] fft_option = "pad_asymmetric_Z_crop_YX" -> pad_asymmetric_Z_crop_YX(c)
      [] fft_option = "pad_symmetric_Z" -> pad_symmetric_Z(c)
      [] fft_option = "pad_asymmetric_Z" -> pad_asymmetric_Z(c)
      [] fft_option = "pad_symmetric_ZYX" -> pad_symmetric_ZYX(c)
      [] fft_option = "pad_asymmetric_ZYX" -> pad_asymmetric_ZYX(c)
      [] fft_option = "do_nothing" -> do_nothing(c)
      [] OTHER -> Fail("ValueError", c.frames_logical)

\* z0, y0, x0 of lines 93-106: a position, or the exception raised
peak_position(data, centering, fix_bragg) ==
    IF centering \notin {"max", "com"} THEN Raise("ValueError")
    ELSE IF Len(fix_bragg) # 0
    THEN IF Len(fix_bragg) # 3 THEN Raise("ValueError")
         ELSE Ok(Position(fix_bragg, 1))
    ELSE IF centering = "max" THEN Ok(Position(argmax_abs(data), 1))
    ELSE Ok(center_of_mass(data))

\* the largest symmetric box of lines 113-115
max_box(iz0, iy0, ix0, nbz, nby, nbx) ==
    <<Abs(2 * Min2(iz0, nbz - iz0)), 2 * Min2(iy0, nby - iy0), Abs(2 * Min2(ix0, nbx - ix0))>>

\* center_fft(data, mask, frames_logical, centering, fft_option, **kwargs)
\* with kwargs = [fix_bragg, fix_size, pad_size, q_values]
center_fft(data, mask, frames_logical, centering, fft_option, kwargs) ==
    LET q_values == IF Len(kwargs.q_values) < 3 THEN <<>> ELSE kwargs.q_values
        peak == peak_position(data, centering, kwargs.fix_bragg)
        iz0 == PyRound(peak.val.num[1], peak.val.den)
        iy0 == PyRound(peak.val.num[2], peak.val.den)
        ix0 == PyRound(peak.val.num[3], peak.val.den)
        nbz == data.shape[1]
        nby == data.shape[2]
        nbx == data.shape[3]
        box == max_box(iz0, iy0, ix0, nbz, nby, nbx)
        option == IF box[1] = 0 \/ box[2] = 0 \/ box[3] = 0 THEN "do_nothing" ELSE fft_option
        c == [data |-> data, mask |-> mask, frames_logical |-> frames_logical,
              q_values |-> q_values, pad_size |-> kwargs.pad_size,
              fix_size |-> kwargs.fix_size,
              iz0 |-> iz0, iy0 |-> iy0, ix0 |-> ix0,
              nbz |-> nbz, nby |-> nby, nbx |-> nbx,
              max_nz |-> box[1], max_ny |-> box[2], max_nx |-> box[3]]
    IN  IF Len(data.shape) # 3 \/ Len(mask.shape) # 3 THEN Fail("ValueError", frames_logical)
        ELSE IF data.shape # mask.shape THEN Fail("ValueError", frames_logical)
        ELSE IF peak.exc # "none" THEN Fail(peak.exc, frames_logical)
        ELSE IF peak.val.nan THEN Fail("ValueError", frames_logical)
        ELSE IF ~(/\ -nbz <= iz0 /\ iz0 < nbz /\ -nby <= iy0 /\ iy0 < nby
                  /\ -nbx <= ix0 /\ ix0 < nbx)
        THEN Fail("IndexError", frames_logical)
        ELSE [apply_fft_option(option, c) EXCEPT
                  !.peak = <<iz0, iy0, ix0>>, !.box = box, !.option = option]

(***************************************************************************)
(* normalize_dataset.  The arrays are float64: a value is the exact        *)
(* fraction <<numerator, denominator>> in lowest terms, <<1, 0>> standing  *)
(* for inf and <<0, 0>> for nan.                                           *)
(***************************************************************************)
RECURSIVE Gcd(_, _)
Gcd(a, b) == IF b = 0 THEN a ELSE Gcd(b, a % b)

Frac(n, d) ==
    IF d = 0 THEN <<IF n = 0 THEN 0 ELSE IF n > 0 THEN 1 ELSE -1, 0>>
    ELSE LET g == Gcd(Abs(n), Abs(d))
             sg == IF d < 0 THEN -1 ELSE 1
         IN  <<sg * (n \div g), sg * (d \div g)>>
FracOf(n) == <<n, 1>>
FracMul(a, b) == Frac(a[1] * b[1], a[2] * b[2])
FracDiv(a, b) == Frac(a[1] * b[2], a[2] * b[1])
FracLess(a, b) == a[1] * b[2] < b[1] * a[2]

\* array.astype(float)
AsFloat(array) == [array EXCEPT !.v = [i \in DOMAIN array.v |-> FracOf(array.v[i])]]

\* q.min() and q.max() of a non-empty 1D array
Min1(q) == CHOOSE m \in {q.v[i] : i \in 0 .. q.n - 1} :
               \A i \in 0 .. q.n - 1 : ~FracLess(q.v[i], m)
Max1(q) == CHOOSE m \in {q.v[i] : i \in 0 .. q.n - 1} :
               \A i \in 0 .. q.n - 1 : ~FracLess(m, q.v[i])

\* what normalize_dataset gives: the returned array, monitor and title, or the
\* exception; built is the monitor vector before it is turned into ratios
Normalized(array, monitor, title, built) ==
    [exc |-> "none", msg |-> "", array |-> array, monitor |-> monitor,
     title |-> title, built |-> built]
NormalizeRaise(cls, msg) ==
    [exc |-> cls, msg |-> msg, array |-> <<>>, monitor |-> <<>>, title |-> "",
     built |-> <<>>]

ZeroSize == "zero-size array to reduction operation which has no identity"
OutOfBounds == "index is out of bounds for axis 0"
NotThreeD == "Array should be 3D"
LengthMismatch == "The frame number and the monitor data length are different"

\* q[k] = c on a 1D array, k >= 0
Set1(q, k, c) == [q EXCEPT !.v = [i \in 0 .. q.n - 1 |-> IF i = k THEN c ELSE q.v[i]]]

\* A faulty monitor loop: a USED frame takes raw_monitor[idx], the padded
\* frames before it are not discounted.
RECURSIVE monitor_loop_unshifted(_, _, _, _, _, _, _)
monitor_loop_unshifted(idx, monitor, nb_overlap, nb_padded, raw_monitor, frames_logical, norm_to_min) ==
    IF idx = frames_logical.n THEN Normalized(<<>>, <<>>, "", monitor)
    ELSE IF frames_logical.v[idx] = PADDED
    THEN IF raw_monitor.n = 0 THEN NormalizeRaise("ValueError", ZeroSize)
         ELSE monitor_loop_unshifted(idx + 1,
                  Set1(monitor, idx - nb_overlap,
                       IF norm_to_min THEN Min1(raw_monitor) ELSE Max1(raw_monitor)),
                  nb_overlap, nb_padded + 1, raw_monitor, frames_logical, norm_to_min)
    ELSE IF frames_logical.v[idx] = USED
    THEN IF idx >= raw_monitor.n THEN NormalizeRaise("IndexError", OutOfBounds)
         ELSE monitor_loop_unshifted(idx + 1,
                  Set1(monitor, idx - nb_overlap, raw_monitor.v[idx]),
                  nb_overlap, nb_padded, raw_monitor, frames_logical, norm_to_min)
    ELSE monitor_loop_unshifted(idx + 1, monitor, nb_overlap + 1, nb_padded, raw_monitor,
                                frames_logical, norm_to_min)

\* for idx in range(len(frames_logical)): ... (lines 1069-1079); the index
\* idx - nb_overlap and the index idx - nb_padded are never negative
RECURSIVE monitor_loop(_, _, _, _, _, _, _)
monitor_loop(idx, monitor, nb_overlap, nb_padded, raw_monitor, frames_logical, norm_to_min) ==
    IF idx = frames_logical.n THEN Normalized(<<>>, <<>>, "", monitor)
    ELSE IF frames_logical.v[idx] = PADDED
    THEN IF raw_monitor.n = 0 THEN NormalizeRaise("ValueError", ZeroSize)
         ELSE IF idx - nb_overlap >= monitor.n THEN NormalizeRaise("IndexError", OutOfBounds)
         ELSE monitor_loop(idx + 1,
                  Set1(monitor, idx - nb_overlap,
                       IF norm_to_min THEN Min1(raw_monitor) ELSE Max1(raw_monitor)),
                  nb_overlap, nb_padded + 1, raw_monitor, frames_logical, norm_to_min)
    ELSE IF frames_logical.v[idx] = USED
    THEN IF idx - nb_padded >= raw_monitor.n \/ idx - nb_overlap >= monitor.n
         THEN NormalizeRaise("IndexError", OutOfBounds)
         ELSE monitor_loop(idx + 1,
                  Set1(monitor, idx - nb_overlap, raw_monitor.v[idx - nb_padded]),
                  nb_overlap, nb_padded, raw_monitor, frames_logical, norm_to_min)
    ELSE monitor_loop(idx + 1, monitor, nb_overlap + 1, nb_padded, raw_monitor,
                      frames_logical, norm_to_min)

\* array[idx, :, :] = array[idx, :, :] * monitor[idx] for every frame
scale_frames(array, monitor) ==
    [array EXCEPT !.v = [i \in DOMAIN array.v |-> FracMul(array.v[i], monitor.v[i[1]])]]

normalize_dataset(array, raw_monitor, frames_logical, norm_to_min) ==
    IF Len(array.shape) # 3 THEN NormalizeRaise("ValueError", NotThreeD)
    ELSE
    LET size == Cardinality({i \in 0 .. frames_logical.n - 1 : frames_logical.v[i] # 0})
        zeros == [n |-> size, v |-> [i \in 0 .. size - 1 |-> FracOf(0)]]
        loop == monitor_loop(0, zeros, 0, 0, raw_monitor, frames_logical, norm_to_min)
        built == loop.built
        monitor == [built EXCEPT !.v = [i \in 0 .. built.n - 1 |->
                       IF norm_to_min THEN FracDiv(Min1(built), built.v[i])
                       ELSE FracDiv(built.v[i], Max1(built))]]
        title == IF norm_to_min THEN "monitor.min() / monitor" ELSE "monitor / monitor.max()"
    IN  IF loop.exc # "none" THEN loop
        ELSE IF built.n = 0 THEN NormalizeRaise("ValueError", ZeroSize)
        ELSE IF monitor.n # array.shape[1] THEN NormalizeRaise("ValueError", LengthMismatch)
        ELSE Normalized(scale_frames(array, monitor), monitor, title, built)

(***************************************************************************)
(* remove_hotpixels                                                        *)
(***************************************************************************)
\* the indices of an array of 1, 2 or 3 dimensions
IdxN(shape) ==
    IF Len(shape) = 1 THEN {<<i>> : i \in 0 .. shape[1] - 1}
    ELSE IF Len(shape) = 2 THEN (0 .. shape[1] - 1) \X (0 .. shape[2] - 1)
    ELSE Idx3(shape)

\* an array of the value c
FullN(shape, c) == [shape |-> shape, v |-> [i \in IdxN(shape) |-> c]]

\* hotpixels.sum(axis=0) of a 3D array
sum_axis0(a) ==
    LET sh == <<a.shape[2], a.shape[3]>>
        RECURSIVE upto(_, _)
        upto(k, p) == IF k = 0 THEN 0 ELSE a.v[<<k - 1, p[1], p[2]>>] + upto(k - 1, p)
    IN  [shape |-> sh, v |-> [p \in IdxN(sh) |-> upto(a.shape[1], p)]]

\* the detector pixel of an element of a 2D or 3D array
PixelOf(i) == IF Len(i) = 3 THEN <<i[2], i[3]>> ELSE i

\* hotpixels == 1
hot_selection(hotpixels, p) == hotpixels.v[p] = 1

\* a[..., hotpixels == 1] = c on every frame of a
set_hot(a, hotpixels, c) ==
    [a EXCEPT !.v = [i \in DOMAIN a.v |->
                        IF hot_selection(hotpixels, PixelOf(i)) THEN c ELSE a.v[i]]]

HotRaise(cls, data, mask) == [exc |-> cls, data |-> data, mask |-> mask]
HotReturn(data, mask) == [exc |-> "none", data |-> data, mask |-> mask]

\* the result holds the content of the caller's data and mask objects after
\* the call, which modifies them in place
remove_hotpixels(data, mask, hotpixels) ==
    LET hot == IF Len(hotpixels.shape) = 3 THEN sum_axis0(hotpixels) ELSE hotpixels
    IN  IF data.shape # mask.shape THEN HotRaise("ValueError", data, mask)
        ELSE IF Len(data.shape) = 3
        THEN IF <<data.shape[2], data.shape[3]>> # hot.shape
             THEN HotRaise("ValueError", data, mask)
             ELSE HotReturn(set_hot(data, hot, 0), set_hot(mask, hot, 1))
        ELSE IF Len(data.shape) = 2
        THEN IF data.shape # hot.shape THEN HotRaise("ValueError", data, mask)
             ELSE HotReturn(set_hot(data, hot, 0), set_hot(mask, hot, 1))
        ELSE HotRaise("ValueError", data, mask)

(***************************************************************************)
(* update_mask and update_mask_2d.  The plotting calls leave the arrays    *)
(* and the controls alone.  ind is what                                    *)
(* Path(np.array(xy)).contains_points(points).reshape(...) gives: the      *)
(* boolean array of the pixels inside the polygon.                         *)
(***************************************************************************)
\* masked_color=0.1
masked_color == Frac(1, 10)

\* starty:piy + width + 1 on an axis of n pixels, starty being 0 when
\* piy - width < 0
brush_lo(p, width, n) == SliceIdx(IF p - width < 0 THEN 0 ELSE p - width, n)
brush_hi(p, width, n) == SliceIdx(p + width + 1, n)
in_brush(k, p, width, n) ==
    brush_lo(p, width, n) <= k /\ k < brush_hi(p, width, n)

\* a[starty:piy + width + 1, startx:pix + width + 1] = c on a 2D array
brush_set(a, pix, piy, width, c) ==
    [a EXCEPT !.v = [i \in DOMAIN a.v |->
        IF in_brush(i[1], piy, width, a.shape[1]) /\ in_brush(i[2], pix, width, a.shape[2])
        THEN c ELSE a.v[i]]]

\* a[b == 1] = c, b of the shape of a
set_where(a, b, c) ==
    [a EXCEPT !.v = [i \in DOMAIN a.v |-> IF b.v[i] = 1 THEN c ELSE a.v[i]]]

\* a[ind] = c, ind a boolean array of the shape of a
set_ind(a, ind, c) ==
    [a EXCEPT !.v = [i \in DOMAIN a.v |-> IF ind.v[i] THEN c ELSE a.v[i]]]

\* the shape of updated_data.sum(axis=dim)
view_shape(shape, dim) ==
    IF dim = 0 THEN <<shape[2], shape[3]>>
    ELSE IF dim = 1 THEN <<shape[1], shape[3]>>
    ELSE <<shape[1], shape[2]>>

MaskReturn(updated_data, updated_mask, flag_pause, xy, width, vmax, stop_masking) ==
    [exc |-> "none", updated_data |-> updated_data, updated_mask |-> updated_mask,
     flag_pause |-> flag_pause, xy |-> xy, width |-> width, vmax |-> vmax,
     stop_masking |-> stop_masking]
MaskRaise(cls, updated_data, updated_mask, flag_pause, xy, width, vmax) ==
    [exc |-> cls, updated_data |-> updated_data, updated_mask |-> updated_mask,
     flag_pause |-> flag_pause, xy |-> xy, width |-> width, vmax |-> vmax,
     stop_masking |-> FALSE]

update_mask(key, pix, piy, original_data, original_mask, updated_data, updated_mask, flag_pause, ind, xy, width, dim, vmax) ==
    IF Len(original_data.shape) # 3 \/ Len(updated_data.shape) # 3
          \/ Len(original_mask.shape) # 3
    THEN MaskRaise("ValueError", updated_data, updated_mask, flag_pause, xy, width, vmax)
    ELSE IF Len(updated_mask.shape) # 2
    THEN MaskRaise("ValueError", updated_data, updated_mask, flag_pause, xy, width, vmax)
    ELSE IF dim # 0 /\ dim # 1 /\ dim # 2
    THEN MaskRaise("ValueError", updated_data, updated_mask, flag_pause, xy, width, vmax)
    ELSE IF key = "up"
    THEN MaskReturn(updated_data, updated_mask, flag_pause, xy, width + 1, vmax, FALSE)
    ELSE IF key = "down"
    THEN MaskReturn(updated_data, updated_mask, flag_pause, xy,
                    IF width - 1 < 0 THEN 0 ELSE width - 1, vmax, FALSE)
    ELSE IF key = "right"
    THEN MaskReturn(updated_data, updated_mask, flag_pause, xy, width, vmax + 1, FALSE)
    ELSE IF key = "left"
    THEN MaskReturn(updated_data, updated_mask, flag_pause, xy, width,
                    IF vmax - 1 < 1 THEN 1 ELSE vmax - 1, FALSE)
    ELSE IF key = "m"
    THEN MaskReturn(updated_data, brush_set(updated_mask, pix, piy, width, 1),
                    flag_pause, xy, width, vmax, FALSE)
    ELSE IF key = "b"
    THEN MaskReturn(updated_data, brush_set(updated_mask, pix, piy, width, 0),
                    flag_pause, xy, width, vmax, FALSE)
    ELSE IF key = "a"
    THEN MaskReturn(set_where(original_data, original_mask,
                              FracMul(masked_color, Frac(1, original_data.shape[dim + 1]))),
                    FullN(view_shape(original_data.shape, dim), 0),
                    flag_pause, <<>>, width, vmax, FALSE)
    ELSE IF key = "p"
    THEN MaskReturn(updated_data,
                    IF Len(xy) # 0 THEN set_ind(updated_mask, ind, 1) ELSE updated_mask,
                    flag_pause, <<>>, width, vmax, FALSE)
    ELSE IF key = "x"
    THEN MaskReturn(updated_data, updated_mask, ~flag_pause, xy, width, vmax, FALSE)
    ELSE IF key = "q"
    THEN MaskReturn(updated_data, updated_mask, flag_pause, xy, width, vmax, TRUE)
    ELSE MaskReturn(updated_data, updated_mask, flag_pause, xy, width, vmax, FALSE)

update_mask_2d(key, pix, piy, original_data, original_mask, updated_data, updated_mask, flag_pause, ind, xy, width, vmax) ==
    IF Len(original_data.shape) # 2 \/ Len(updated_data.shape) # 2
          \/ Len(original_mask.shape) # 2 \/ Len(updated_mask.shape) # 2
    THEN MaskRaise("ValueError", updated_data, updated_mask, flag_pause, xy, width, vmax)
    ELSE IF key = "up"
    THEN MaskReturn(updated_data, updated_mask, flag_pause, xy, width + 1, vmax, FALSE)
    ELSE IF key = "down"
    THEN MaskReturn(updated_data, updated_mask, flag_pause, xy,
                    IF width - 1 < 0 THEN 0 ELSE width - 1, vmax, FALSE)
    ELSE IF key = "right"
    THEN MaskReturn(set_where(updated_data, updated_mask, masked_color), updated_mask,
                    flag_pause, xy, width, vmax + 1, FALSE)
    ELSE IF key = "left"
    THEN MaskReturn(set_where(updated_data, updated_mask, masked_color), updated_mask,
                    flag_pause, xy, width, IF vmax - 1 < 1 THEN 1 ELSE vmax - 1, FALSE)
    ELSE IF key = "m"
    THEN LET m == brush_set(updated_mask, pix, piy, width, 1)
         IN  MaskReturn(set_where(updated_data, m, masked_color), m,
                        flag_pause, xy, width, vmax, FALSE)
    ELSE IF key = "b"
    THEN LET m == brush_set(updated_mask, pix, piy, width, 0)
         IN  MaskReturn(set_where(updated_data, m, masked_color), m,
                        flag_pause, xy, width, vmax, FALSE)
    ELSE IF key = "a"
    THEN MaskReturn(set_where(original_data, original_mask, masked_color),
                    FullN(original_data.shape, 0), flag_pause, <<>>, width, vmax, FALSE)
    ELSE IF key = "p"
    THEN LET m == IF Len(xy) # 0 THEN set_ind(updated_mask, ind, 1) ELSE updated_mask
         IN  MaskReturn(set_where(updated_data, m, masked_color), m,
                        flag_pause, <<>>, width, vmax, FALSE)
    ELSE IF key = "x"
    THEN MaskReturn(updated_data, updated_mask, ~flag_pause, xy, width, vmax, FALSE)
    ELSE IF key = "q"
    THEN MaskReturn(updated_data, updated_mask, flag_pause, xy, width, vmax, TRUE)
    ELSE MaskReturn(updated_data, updated_mask, flag_pause, xy, width, vmax, FALSE)

(***************************************************************************)
(* mask_eiger, mask_eiger4m, mask_maxipix.  A detector frame is held on    *)
(* the pixels of SamplePixels(shape): the rows and columns at which a      *)
(* slice of one of the three functions starts or stops, their neighbours   *)
(* and the edges of the frame.  A slice is <<row start, row stop, column   *)
(* start, column stop>>; ':' is <<0, n>>, a single column c is <<c, c+1>>. *)
(***************************************************************************)
\* data[...] = 0 of mask_eiger, in order
eiger_data_slices(shape) ==
    <<<<0, shape[1], 255, 259>>, <<0, shape[1], 513, 517>>, <<0, shape[1], 771, 775>>,
      <<0, 257, 72, 80>>, <<255, 259, 0, shape[2]>>, <<511, 552, 0, 0>>,
      <<804, 809, 0, shape[2]>>, <<1061, 1102, 0, shape[2]>>, <<1355, 1359, 0, shape[2]>>,
      <<1611, 1652, 0, shape[2]>>, <<1905, 1909, 0, shape[2]>>, <<1248, 1290, 478, 479>>,
      <<1214, 1298, 481, 482>>, <<1649, 1910, 620, 628>>>>

\* mask[...] = 1 of mask_eiger, in order
eiger_mask_slices(shape) ==
    <<<<0, shape[1], 255, 259>>, <<0, shape[1], 513, 517>>, <<0, shape[1], 771, 775>>,
      <<0, 257, 72, 80>>, <<255, 259, 0, shape[2]>>, <<511, 552, 0, shape[2]>>,
      <<804, 809, 0, shape[2]>>, <<1061, 1102, 0, shape[2]>>, <<1355, 1359, 0, shape[2]>>,
      <<1611, 1652, 0, shape[2]>>, <<1905, 1909, 0, shape[2]>>, <<1248, 1290, 478, 479>>,
      <<1214, 1298, 481, 482>>, <<1649, 1910, 620, 628>>>>

\* mask_eiger4m writes the same four slices in data and in mask
eiger4m_slices(shape) ==
    <<<<0, shape[1], 1029, 1041>>, <<513, 552, 0, shape[2]>>, <<1064, 1103, 0, shape[2]>>,
      <<1614, 1654, 0, shape[2]>>>>

\* mask_maxipix writes the same two slices in data and in mask
maxipix_slices(shape) ==
    <<<<0, shape[1], 255, 261>>, <<255, 261, 0, shape[2]>>>>

\* the pixel is in a[r0:r1, c0:c1]
in_slice(i, sl, shape) ==
    /\ SliceIdx(sl[1], shape[1]) <= i[1] /\ i[1] < SliceIdx(sl[2], shape[1])
    /\ SliceIdx(sl[3], shape[2]) <= i[2] /\ i[2] < SliceIdx(sl[4], shape[2])

\* a[r0:r1, c0:c1] = c for every slice of the list
set_slices(a, slices, c) ==
    [a EXCEPT !.v = [i \in DOMAIN a.v |->
        IF \E k \in DOMAIN slices : in_slice(i, slices[k], a.shape) THEN c ELSE a.v[i]]]

GapRaise(cls, data, mask) == [exc |-> cls, data |-> data, mask |-> mask]
GapReturn(data, mask) == [exc |-> "none", data |-> data, mask |-> mask]

\* the result holds the content of the caller's data and mask objects after
\* the call, which modifies them in place
mask_eiger(data, mask) ==
    IF Len(data.shape) # 2 \/ Len(mask.shape) # 2 THEN GapRaise("ValueError", data, mask)
    ELSE IF data.shape # mask.shape THEN GapRaise("ValueError", data, mask)
    ELSE GapReturn(set_slices(data, eiger_data_slices(data.shape), 0),
                   set_slices(mask, eiger_mask_slices(mask.shape), 1))

mask_eiger4m(data, mask) ==
    IF Len(data.shape) # 2 \/ Len(mask.shape) # 2 THEN GapRaise("ValueError", data, mask)
    ELSE IF data.shape # mask.shape THEN GapRaise("ValueError", data, mask)
    ELSE GapReturn(set_slices(data, eiger4m_slices(data.shape), 0),
                   set_slices(mask, eiger4m_slices(mask.shape), 1))

mask_maxipix(data, mask) ==
    IF Len(data.shape) # 2 \/ Len(mask.shape) # 2 THEN GapRaise("ValueError", data, mask)
    ELSE IF data.shape # mask.shape THEN GapRaise("ValueError", data, mask)
    ELSE GapReturn(set_slices(data, maxipix_slices(data.shape), 0),
                   set_slices(mask, maxipix_slices(mask.shape), 1))

(***************************************************************************)
(* update_aliens and update_aliens_2d.  The plotting calls leave the       *)
(* arrays and the controls alone.                                          *)
(***************************************************************************)
\* A faulty 'd': the index stops at the first frame.
frame_down_clamped(idx, n) == IF idx - 1 < 0 THEN 0 ELSE idx - 1

\* key 'u': idx = idx + 1; if idx > n - 1: idx = 0
frame_up(idx, n) == IF idx + 1 > n - 1 THEN 0 ELSE idx + 1

\* key 'd': idx = idx - 1; if idx < 0: idx = n - 1
frame_down(idx, n) == IF idx - 1 < 0 THEN n - 1 ELSE idx - 1

\* the elements of a[idx, starty:piy + width + 1, startx:pix + width + 1]
\* (dim 0), a[starty:..., idx, startx:...] (dim 1), a[starty:..., startx:...,
\* idx] (dim 2); a negative idx counts from the end
aliens_window(shape, pix, piy, width, dim, idx) ==
    LET at == IF idx < 0 THEN idx + shape[dim + 1] ELSE idx
        rows == IF dim = 0 THEN 2 ELSE 1
        cols == IF dim = 2 THEN 2 ELSE 3
    IN  {i \in Idx3(shape) :
            /\ i[dim + 1] = at
            /\ in_brush(i[rows], piy, width, shape[rows])
            /\ in_brush(i[cols], pix, width, shape[cols])}

\* the elements of a[starty:piy + width + 1, startx:pix + width + 1]
aliens_window_2d(shape, pix, piy, width) ==
    {i \in IdxN(shape) :
        in_brush(i[1], piy, width, shape[1]) /\ in_brush(i[2], pix, width, shape[2])}

\* a[window] = c
set_window(a, window, c) ==
    [a EXCEPT !.v = [i \in DOMAIN a.v |-> IF i \in window THEN c ELSE a.v[i]]]

\* A faulty 'b': the data of the window is left as it is.
copy_window_kept(a, window, b) == a

\* a[window] = b[window]
copy_window(a, window, b) ==
    [a EXCEPT !.v = [i \in DOMAIN a.v |-> IF i \in window THEN b.v[i] ELSE a.v[i]]]

AliensReturn(updated_data, updated_mask, width, vmax, idx, stop_masking) ==
    [exc |-> "none", updated_data |-> updated_data, updated_mask |-> updated_mask,
     width |-> width, vmax |-> vmax, idx |-> idx, stop_masking |-> stop_masking]
AliensRaise(cls, updated_data, updated_mask, width, vmax, idx) ==
    [exc |-> cls, updated_data |-> updated_data, updated_mask |-> updated_mask,
     width |-> width, vmax |-> vmax, idx |-> idx, stop_masking |-> FALSE]
AliensReturn2d(updated_data, updated_mask, width, vmax, stop_masking) ==
    [exc |-> "none", updated_data |-> updated_data, updated_mask |-> updated_mask,
     width |-> width, vmax |-> vmax, stop_masking |-> stop_masking]
AliensRaise2d(cls, updated_data, updated_mask, width, vmax) ==
    [exc |-> cls, updated_data |-> updated_data, updated_mask |-> updated_mask,
     width |-> width, vmax |-> vmax, stop_masking |-> FALSE]

\* vmax = vmax / 2; if vmax < 1: vmax = 1
vmax_halved(vmax) ==
    LET h == FracDiv(vmax, FracOf(2)) IN IF FracLess(h, FracOf(1)) THEN FracOf(1) ELSE h

update_aliens(key, pix, piy, original_data, updated_data, updated_mask, width, dim, idx, vmax) ==
    IF Len(original_data.shape) # 3 \/ Len(updated_data.shape) # 3
          \/ Len(updated_mask.shape) # 3
    THEN AliensRaise("ValueError", updated_data, updated_mask, width, vmax, idx)
    ELSE IF dim > 2
    THEN AliensRaise("ValueError", updated_data, updated_mask, width, vmax, idx)
    ELSE
    LET shape == original_data.shape
        n == shape[dim + 1]
        window == aliens_window(updated_data.shape, pix, piy, width, dim, idx)
    IN  IF key = "u"
        THEN AliensReturn(updated_data, updated_mask, width, vmax, frame_up(idx, n), FALSE)
        ELSE IF key = "d"
        THEN AliensReturn(updated_data, updated_mask, width, vmax, frame_down(idx, n), FALSE)
        ELSE IF key = "up"
        THEN AliensReturn(updated_data, updated_mask, width + 1, vmax, idx, FALSE)
        ELSE IF key = "down"
        THEN AliensReturn(updated_data, updated_mask,
                          IF width - 1 < 0 THEN 0 ELSE width - 1, vmax, idx, FALSE)
        ELSE IF key = "right"
        THEN AliensReturn(updated_data, updated_mask, width, FracMul(vmax, FracOf(2)),
                          idx, FALSE)
        ELSE IF key = "left"
        THEN AliensReturn(updated_data, updated_mask, width, vmax_halved(vmax), idx, FALSE)
        ELSE IF key \in {"m", "b"} /\ (idx >= n \/ idx < -n)
        THEN AliensRaise("IndexError", updated_data, updated_mask, width, vmax, idx)
        ELSE IF key = "m"
        THEN AliensReturn(set_window(updated_data, window, FracOf(0)),
                          set_window(updated_mask, window, 1), width, vmax, idx, FALSE)
        ELSE IF key = "b"
        THEN AliensReturn(copy_window(updated_data, window, original_data),
                          set_window(updated_mask, window, 0), width, vmax, idx, FALSE)
        ELSE IF key = "q"
        THEN AliensReturn(updated_data, updated_mask, width, vmax, idx, TRUE)
        ELSE AliensReturn(updated_data, updated_mask, width, vmax, idx, FALSE)

update_aliens_2d(key, pix, piy, original_data, updated_data, updated_mask, width, vmax) ==
    IF Len(original_data.shape) # 2 \/ Len(updated_data.shape) # 2
          \/ Len(updated_mask.shape) # 2
    THEN AliensRaise2d("ValueError", updated_data, updated_mask, width, vmax)
    ELSE
    LET window == aliens_window_2d(updated_data.shape, pix, piy, width)
    IN  IF key = "up"
        THEN AliensReturn2d(updated_data, updated_mask, width + 1, vmax, FALSE)
        ELSE IF key = "down"
        THEN AliensReturn2d(updated_data, updated_mask,
                            IF width - 1 < 0 THEN 0 ELSE width - 1, vmax, FALSE)
        ELSE IF key = "right"
        THEN AliensReturn2d(updated_data, updated_mask, width, FracMul(vmax, FracOf(2)), FALSE)
        ELSE IF key = "left"
        THEN AliensReturn2d(updated_data, updated_mask, width, vmax_halved(vmax), FALSE)
        ELSE IF key = "m"
        THEN AliensReturn2d(set_window(updated_data, window, FracOf(0)),
                            set_window(updated_mask, window, 1), width, vmax, FALSE)
        ELSE IF key = "b"
        THEN AliensReturn2d(copy_window(updated_data, window, original_data),
                            set_window(updated_mask, window, 0), width, vmax, FALSE)
        ELSE IF key = "q"
        THEN AliensReturn2d(updated_data, updated_mask, width, vmax, TRUE)
        ELSE AliensReturn2d(updated_data, updated_mask, width, vmax, FALSE)

(***************************************************************************)
(* The state machine: a dataset as the loaders leave it (data, mask and    *)
(* frames_logical of the caller), then one call of center_fft.             *)
(***************************************************************************)
VARIABLES data, mask, frames_logical, q_values, call, ret, pc

vars == <<data, mask, frames_logical, q_values, call, ret, pc>>

\* Rocking-curve lengths and peak frames of the datasets
ZCases == {<<n, i>> : n \in {SmallN, MaxN - 1, MaxN}, i \in 0 .. MaxN - 1} \cap
          {<<n, i>> \in (0 .. MaxN) \X (0 .. MaxN) : i < n}

\* Detector sizes and peak pixels of the datasets: <<ny, iy, nx, ix>>
DetCases ==
    {<<SmallN, 1, SmallN, 1>>,
     <<MaxN - 1, (MaxN - 1) \div 2, MaxN, MaxN \div 2>>,
     <<MaxN, MaxN \div 2 + 1, MaxN - 1, (MaxN - 1) \div 2>>,
     <<MaxN, MaxN - 1, MaxN, MaxN \div 2>>,
     <<MaxN, MaxN \div 2, MaxN - 1, 0>>,
     <<MaxN - 1, 0, MaxN, MaxN \div 2>>}

\* Intensities: nothing, one bright voxel at p, or the bright voxel and a
\* weaker one on the first voxel of the array
MakeData(kind, shape, p) ==
    [shape |-> shape,
     v |-> [i \in Idx3(shape) |->
              IF kind = "empty" THEN 0
              ELSE IF i = p THEN 3
              ELSE IF kind = "peak_and_corner" /\ i = <<0, 0, 0>> THEN 1
              ELSE 0]]

\* frames_logical of the loaders is np.ones(nb_img); a caller may have
\* marked a frame as not used
MakeFrames(kind, n) ==
    Arr1(n, LAMBDA i : IF kind = "one_unused" /\ i = n \div 2 THEN UNUSED ELSE USED)

\* the mask: nothing masked, or the voxel after the peak frame masked
MakeMask(kind, shape, p) ==
    [shape |-> shape,
     v |-> [i \in Idx3(shape) |->
              IF kind = "one_unused" /\ i = <<(p[1] + 1) % shape[1], p[2], p[3]>>
              THEN 1 ELSE 0]]

\* q_values of a regridded dataset: [qx, qz, qy], linearly spaced
MakeQ(shape) ==
    <<Arr1(shape[1], LAMBDA i : 100 + 2 * i),
      Arr1(shape[2], LAMBDA i : 200 + 3 * i),
      Arr1(shape[3], LAMBDA i : 300 + 5 * i)>>

\* The datasets: <<intensities, frames and mask, regridded or not>>
Datasets ==
    {<<"empty", "all_used", FALSE>>, <<"peak", "all_used", FALSE>>,
     <<"peak_and_corner", "one_unused", TRUE>>}

\* 'max' and 'com' find the same voxel in a dataset of one bright voxel: the
\* calls use 'max' there, 'com' on a dataset of several voxels, both on none
Centerings(d) ==
    LET lit == Cardinality({i \in Idx3(d.shape) : d.v[i] # 0})
    IN  IF lit = 0 THEN {"max", "com"} ELSE IF lit = 1 THEN {"max"} ELSE {"com"}

PadSizes ==
    {<<p, p, p>> : p \in MinPad .. MaxPad}
      \cup {<<MaxPad, MaxPad - 3, MaxPad>>, <<MaxPad - 2, MaxPad, MaxPad - 3>>}

FixSizes(shape) ==
    {<<1, shape[1], 0, shape[2] - 1, 0, shape[3]>>,
     <<0, shape[1] + 1, 0, shape[2], 0, shape[3]>>,
     <<-1, shape[1], 0, shape[2], 0, shape[3]>>,
     <<0, shape[1], 1, 0, 0, shape[3]>>,
     <<shape[1], shape[2], shape[3]>>}

\* the keyword arguments given with each fft_option, q standing for the
\* q_values of the dataset
KwargsOf(fft_option, shape, q) ==
    LET none == [fix_bragg |-> <<>>, fix_size |-> <<>>, pad_size |-> <<>>, q_values |-> q]
    IN  IF fft_option \in {"pad_symmetric_Z_crop_YX", "pad_symmetric_Z", "pad_symmetric_ZYX"}
        THEN {[none EXCEPT !.pad_size = ps] : ps \in PadSizes \cup {<<>>}}
        ELSE IF fft_option = "pad_asymmetric_ZYX"
        THEN {none, [none EXCEPT !.pad_size = <<MaxPad, MaxPad, MaxPad>>],
              [none EXCEPT !.pad_size = <<MaxPad, MaxPad - 3, MaxPad>>]}
        ELSE IF fft_option = "do_nothing"
        THEN {[none EXCEPT !.fix_size = fs] : fs \in FixSizes(shape) \cup {<<>>}}
        ELSE IF fft_option = "crop_symmetric_ZYX"
        THEN {none, [none EXCEPT !.fix_bragg =
                          <<shape[1] \div 2, shape[2] \div 2, shape[3] \div 2>>]}
        ELSE {none}

NoCall == [centering |-> "", fft_option |-> "", kwargs |-> <<>>, frames_logical |-> <<>>]

Init ==
    /\ \E zc \in ZCases, dc \in DetCases, ds \in Datasets :
         LET shape == <<zc[1], dc[1], dc[3]>>
             p == <<zc[2], dc[2], dc[4]>>
         IN  /\ data = MakeData(ds[1], shape, p)
             /\ mask = MakeMask(ds[2], shape, p)
             /\ frames_logical = MakeFrames(ds[2], shape[1])
             /\ q_values = IF ds[3] THEN MakeQ(shape) ELSE <<>>
    /\ call = NoCall
    /\ ret = Fail("", <<>>)
    /\ pc = "loaded"

\* data, mask, pad_width, q_values, frames_logical = center_fft(...)
CallCenterFft ==
    /\ pc = "loaded"
    /\ \E centering \in Centerings(data), fft_option \in FftOptions :
         \E kwargs \in KwargsOf(fft_option, data.shape, q_values) :
           /\ ret' = center_fft(data, mask, frames_logical, centering, fft_option, kwargs)
           /\ frames_logical' = ret'.caller_frames
           /\ call' = [centering |-> centering, fft_option |-> fft_option,
                       kwargs |-> kwargs, frames_logical |-> frames_logical]
           /\ pc' = IF ret'.exc = "none" THEN "returned" ELSE "raised"
    /\ UNCHANGED <<data, mask, q_values>>

Next == CallCenterFft

Spec == Init /\ [][Next]_vars

(***************************************************************************)
(* The number utilities called on their own: no dataset is loaded, the     *)
(* arguments of the call are drawn, then one of primes,                    *)
(* try_smaller_primes, smaller_primes and higher_primes is called on them. *)
(* pc is "running" when the call has not returned after MaxSearch steps of *)
(* its loop.                                                               *)
(***************************************************************************)
NoArray == [shape |-> <<0, 0, 0>>, v |-> <<>>]
NoFrames == [n |-> 0, v |-> <<>>]

Numbers == {IntValue(n) : n \in 1 .. MaxNumber}

NumberSequences ==
    {[kind |-> k, items |-> i] :
        k \in {"list", "tuple", "ndarray"},
        i \in {<<>>, <<MaxNumber - 2>>, <<MaxNumber, MaxNumber - 1>>,
               <<MaxNumber - 1, 3, MaxNumber>>}}

MaxPrimes == {2, 3, 5, 7, 13}

RequiredDividers == {<<>>, <<2>>, <<4>>, <<2, 3>>, <<11>>}

InitPrimes ==
    /\ data = NoArray
    /\ mask = NoArray
    /\ frames_logical = NoFrames
    /\ q_values = <<>>
    /\ \E number \in Numbers \cup NumberSequences, maxprime \in MaxPrimes,
          required_dividers \in RequiredDividers :
         call = [function |-> "", number |-> number, maxprime |-> maxprime,
                 required_dividers |-> required_dividers]
    /\ ret = Raise("")
    /\ pc = "args"

\* where a call of function that gave result leaves the caller
PcAfter(function, result) ==
    IF result.exc # "none" THEN "raised"
    ELSE IF function = "higher_primes" /\ result.val = IntValue(-1) THEN "running"
    ELSE "returned"

\* primes(number)
CallPrimes ==
    /\ pc = "args"
    /\ call' = [call EXCEPT !.function = "primes"]
    /\ ret' = primes_checked(call.number)
    /\ pc' = PcAfter("primes", ret')
    /\ UNCHANGED <<data, mask, frames_logical, q_values>>

\* try_smaller_primes(number, maxprime, required_dividers)
CallTrySmallerPrimes ==
    /\ pc = "args"
    /\ call' = [call EXCEPT !.function = "try_smaller_primes"]
    /\ ret' = try_smaller_primes_checked(call.number, call.maxprime,
                                         call.required_dividers)
    /\ pc' = PcAfter("try_smaller_primes", ret')
    /\ UNCHANGED <<data, mask, frames_logical, q_values>>

\* smaller_primes(number, maxprime, required_dividers)
CallSmallerPrimes ==
    /\ pc = "args"
    /\ call' = [call EXCEPT !.function = "smaller_primes"]
    /\ ret' = smaller_primes_any(call.number, call.maxprime, call.required_dividers)
    /\ pc' = PcAfter("smaller_primes", ret')
    /\ UNCHANGED <<data, mask, frames_logical, q_values>>

\* higher_primes(number, maxprime, required_dividers)
CallHigherPrimes ==
    /\ pc = "args"
    /\ call' = [call EXCEPT !.function = "higher_primes"]
    /\ ret' = higher_primes_any(call.number, call.maxprime, call.required_dividers)
    /\ pc' = PcAfter("higher_primes", ret')
    /\ UNCHANGED <<data, mask, frames_logical, q_values>>

NextPrimes ==
    \/ CallPrimes
    \/ CallTrySmallerPrimes
    \/ CallSmallerPrimes
    \/ CallHigherPrimes

SpecPrimes == InitPrimes /\ [][NextPrimes]_vars

(***************************************************************************)
(* What the claims speak of, read off the state after the call.            *)
(***************************************************************************)
Called == pc # "loaded"
Returned == pc = "returned"
Raised(cls) == pc = "raised" /\ ret.exc = cls

\* center_fft found the peak and its largest symmetric box
PeakFound == Called /\ ret.peak # <<>>
BoxNonZero == PeakFound /\ \A k \in 1 .. 3 : ret.box[k] # 0
BoxZero == PeakFound /\ \E k \in 1 .. 3 : ret.box[k] = 0

\* the policy was asked for and the symmetric box did not force 'do_nothing'
Applied(fft_option) == BoxNonZero /\ call.fft_option = fft_option

CropOptions == {"crop_symmetric_ZYX", "crop_asymmetric_ZYX"}
PadOptions ==
    {"pad_symmetric_Z_crop_YX", "pad_asymmetric_Z_crop_YX", "pad_symmetric_Z",
     "pad_asymmetric_Z", "pad_symmetric_ZYX", "pad_asymmetric_ZYX"}
PadSizeOptions == {"pad_symmetric_Z_crop_YX", "pad_symmetric_Z", "pad_symmetric_ZYX"}

\* the FFT constraint of the engine: largest prime factor <= 7, divisible by 2
FftValid(n) == n > 0 /\ try_smaller_primes(n, FFT_MAXPRIME, FFT_DIVIDERS)
NearestAtMost(n) == CHOOSE m \in 0 .. n : (m = 0 \/ FftValid(m)) /\ \A j \in m + 1 .. n : ~FftValid(j)
NearestAtLeast(n) == CHOOSE m \in n .. 2 * n + 2 : FftValid(m) /\ \A j \in n .. m - 1 : ~FftValid(j)

(***************************************************************************)
(* C1                                                                      *)
(***************************************************************************)
\* C1 (as claimed): after center_fft returns, under any policy, the returned
\* frames_logical has the length of the returned data's rocking axis.
C1_FramesLengthIsDataLength ==
    Returned => ret.frames_logical.n = ret.data.shape[1]

\* C1 (amended): the returned frames_logical has the length of the returned
\* data's rocking axis when a pad policy was applied; when a crop policy or
\* do_nothing was applied it keeps the length of the input data's rocking
\* axis, which is at least the returned one.
C1_FramesLength ==
    Returned =>
        IF \E o \in PadOptions : Applied(o)
        THEN ret.frames_logical.n = ret.data.shape[1]
        ELSE /\ ret.frames_logical.n = data.shape[1]
             /\ ret.frames_logical.n >= ret.data.shape[1]

\* C1 witness: a pad policy returned and added frames
C1_Witness ==
    /\ Returned
    /\ Applied("pad_asymmetric_Z")
    /\ ret.pad_width[1] + ret.pad_width[2] > 0
    /\ ret.frames_logical.n = data.shape[1] + ret.pad_width[1] + ret.pad_width[2]

(***************************************************************************)
(* C7                                                                      *)
(***************************************************************************)
\* C7: the crop policies (crop_symmetric_ZYX, crop_asymmetric_ZYX, do_nothing)
\* never return data with an axis longer than the input's, and the pad
\* policies (pad_symmetric_Z, pad_asymmetric_Z, pad_symmetric_ZYX,
\* pad_asymmetric_ZYX) never return data with an axis shorter than the input's.
C7_CropNeverGrowsPadNeverShrinks ==
    Returned =>
        /\ call.fft_option \in CropOptions \cup {"do_nothing"} =>
               \A k \in 1 .. 3 : ret.data.shape[k] <= data.shape[k]
        /\ call.fft_option \in {"pad_symmetric_Z", "pad_asymmetric_Z",
                                "pad_symmetric_ZYX", "pad_asymmetric_ZYX"} =>
               \A k \in 1 .. 3 : ret.data.shape[k] >= data.shape[k]

\* C7 witness: pad_symmetric_ZYX returned, one axis grew and another axis,
\* longer than its pad_size, was kept
C7_Witness ==
    /\ Returned
    /\ Applied("pad_symmetric_ZYX")
    /\ \E k \in 1 .. 3 : ret.data.shape[k] > data.shape[k]
    /\ \E k \in 1 .. 3 : /\ call.kwargs.pad_size[k] < data.shape[k]
                         /\ ret.data.shape[k] = data.shape[k]

(***************************************************************************)
(* C2                                                                      *)
(***************************************************************************)
\* C2: with 'crop_symmetric_ZYX', whenever the largest symmetric box around
\* the peak is non-zero on every axis, center_fft returns, pad_width is all
\* zero, and every axis of the returned data and mask is the largest length
\* not above the box of that axis that is even with no prime factor above 7.
C2_CropSymmetricReturnsFftShape ==
    Applied("crop_symmetric_ZYX") =>
        /\ Returned
        /\ ret.pad_width = Zeros6
        /\ ret.mask.shape = ret.data.shape
        /\ \A k \in 1 .. 3 : /\ FftValid(ret.data.shape[k])
                             /\ ret.data.shape[k] = NearestAtMost(ret.box[k])

(***************************************************************************)
(* C3                                                                      *)
(***************************************************************************)
\* the pad_width of the claim on one axis
C3_Low(pad_size, peak, n) ==
    Max2(0, Min2(pad_size \div 2 - peak, pad_size - n))
C3_High(pad_size, peak, n) ==
    Max2(0, Min2(pad_size \div 2 - (n - peak), pad_size - n))

\* C3: with 'pad_symmetric_ZYX' and a pad_size of three FFT-valid integers,
\* center_fft returns data and mask of shape pad_size, and pad_width is, on
\* each axis, (max(0, min(pad_size/2 - peak, pad_size - n)),
\* max(0, min(pad_size/2 - (n - peak), pad_size - n))).
C3_PadSymmetricReturnsPadSize ==
    (/\ Applied("pad_symmetric_ZYX")
     /\ Len(call.kwargs.pad_size) = 3
     /\ \A k \in 1 .. 3 : FftValid(call.kwargs.pad_size[k])) =>
        /\ Returned
        /\ ret.data.shape = call.kwargs.pad_size
        /\ ret.mask.shape = call.kwargs.pad_size
        /\ \A k \in 1 .. 3 :
             /\ ret.pad_width[2 * k - 1] =
                    C3_Low(call.kwargs.pad_size[k], ret.peak[k], data.shape[k])
             /\ ret.pad_width[2 * k] =
                    C3_High(call.kwargs.pad_size[k], ret.peak[k], data.shape[k])

(***************************************************************************)
(* C4                                                                      *)
(***************************************************************************)
\* C4: in the policies that compute pad_width from pad_size and the peak, no
\* padding_width given to zero_pad and no returned pad_width has a negative
\* entry.
C4_PadWidthNeverNegative ==
    (Called /\ call.fft_option \in PadSizeOptions) =>
        /\ \A j \in DOMAIN ret.zero_pad_calls :
             \A k \in 1 .. 6 : ret.zero_pad_calls[j][k] >= 0
        /\ Returned => \A k \in 1 .. 6 : ret.pad_width[k] >= 0

(***************************************************************************)
(* C5                                                                      *)
(***************************************************************************)
\* C5: with 'pad_asymmetric_ZYX' and no pad_size, center_fft returns, every
\* axis of length n is padded to n1, the nearest FFT-valid length >= n, with
\* ceil((n1 - n) / 2) voxels before and floor((n1 - n) / 2) after, and the
\* returned shape is (nz1, ny1, nx1).
C5_PadAsymmetricNeedsNoPadSize ==
    (Applied("pad_asymmetric_ZYX") /\ call.kwargs.pad_size = <<>>) =>
        /\ Returned
        /\ \A k \in 1 .. 3 :
             LET n1 == NearestAtLeast(data.shape[k])
                 D == n1 - data.shape[k]
             IN  /\ ret.pad_width[2 * k - 1] = (D + 1) \div 2
                 /\ ret.pad_width[2 * k] = D \div 2
                 /\ ret.data.shape[k] = n1
                 /\ ret.mask.shape[k] = n1

(***************************************************************************)
(* C6                                                                      *)
(***************************************************************************)
\* a fix_size of 6 integers that is a box of the array
C6_BoxWithin(fs, shape) ==
    /\ Len(fs) = 6
    /\ \A k \in 1 .. 3 : 0 <= fs[2 * k - 1] /\ fs[2 * k - 1] <= fs[2 * k]
                         /\ fs[2 * k] <= shape[k]

\* C6: with 'do_nothing' and a fix_size box within the array, center_fft
\* returns data and mask cropped to the box, the frames before zstart and
\* from zstop on marked 0, and a zero pad_width; without fix_size it returns
\* data, mask and frames_logical unchanged.
C6_DoNothingCropsToFixSize ==
    (PeakFound /\ call.fft_option = "do_nothing") =>
        LET fs == call.kwargs.fix_size
        IN  /\ C6_BoxWithin(fs, data.shape) =>
                 /\ Returned
                 /\ ret.data = Slice3(data, fs[1], fs[2], fs[3], fs[4], fs[5], fs[6])
                 /\ ret.mask = Slice3(mask, fs[1], fs[2], fs[3], fs[4], fs[5], fs[6])
                 /\ ret.pad_width = Zeros6
                 /\ \A i \in 0 .. ret.frames_logical.n - 1 :
                      ret.frames_logical.v[i] =
                          IF i < fs[1] \/ i >= fs[2] THEN UNUSED
                          ELSE call.frames_logical.v[i]
            /\ fs = <<>> =>
                 /\ Returned
                 /\ ret.data = data
                 /\ ret.mask = mask
                 /\ ret.frames_logical = call.frames_logical

(***************************************************************************)
(* C8                                                                      *)
(***************************************************************************)
\* the data has no intensity
C8_NoIntensity == \A i \in Idx3(data.shape) : data.v[i] = 0

\* C8: when the largest symmetric box is 0 on an axis (the peak on an edge,
\* or data with no intensity), center_fft does not raise, whatever the
\* policy and the centering: it returns data, mask and frames_logical
\* unchanged and a zero pad_width.
C8_ZeroBoxIsDoNothing ==
    (/\ Called
     /\ Len(call.kwargs.fix_size) # 3
     /\ BoxZero \/ (C8_NoIntensity /\ call.kwargs.fix_bragg = <<>>)) =>
        /\ Returned
        /\ ret.data = data
        /\ ret.mask = mask
        /\ ret.frames_logical = call.frames_logical
        /\ frames_logical = call.frames_logical
        /\ ret.pad_width = Zeros6

(***************************************************************************)
(* C9                                                                      *)
(***************************************************************************)
\* C9: in the policies that use pad_size, a pad_size of three entries makes
\* center_fft raise ValueError exactly when one of its entries is not
\* FFT-valid, and then the caller's frames_logical is as it was.
C9_PadSizeValidated ==
    (/\ \E o \in PadSizeOptions : Applied(o)
     /\ Len(call.kwargs.pad_size) = 3) =>
        LET bad == \E k \in 1 .. 3 : ~FftValid(call.kwargs.pad_size[k])
        IN  /\ bad <=> Raised("ValueError")
            /\ bad => frames_logical = call.frames_logical

(***************************************************************************)
(* C10                                                                     *)
(***************************************************************************)
\* C10: with 'do_nothing', a fix_size of 6 integers that is not a box of the
\* array makes center_fft raise ValueError, and the caller's frames_logical
\* is as it was.
C10_BadFixSizeRaises ==
    (/\ PeakFound
     /\ call.fft_option = "do_nothing"
     /\ Len(call.kwargs.fix_size) = 6
     /\ ~C6_BoxWithin(call.kwargs.fix_size, data.shape)) =>
        /\ Raised("ValueError")
        /\ frames_logical = call.frames_logical

(***************************************************************************)
(* C11                                                                     *)
(***************************************************************************)
\* C11: when a pad policy returns, the returned frames_logical has length
\* pad_width[0] + nbz + pad_width[1], its first pad_width[0] and its last
\* pad_width[1] entries are -1, the entries between them are the entries of
\* the frames_logical given, in the same order, and the caller's
\* frames_logical is as it was.
C11_PadFramesContent ==
    (Returned /\ \E o \in PadOptions : Applied(o)) =>
        LET lo == ret.pad_width[1]
            hi == ret.pad_width[2]
            nbz == data.shape[1]
            f == ret.frames_logical
        IN  /\ lo >= 0 /\ hi >= 0
            /\ f.n = lo + nbz + hi
            /\ \A i \in 0 .. f.n - 1 :
                 f.v[i] = IF i < lo \/ i >= lo + nbz THEN PADDED
                          ELSE call.frames_logical.v[i - lo]
            /\ frames_logical = call.frames_logical

C11_Witness ==
    /\ Returned
    /\ \E o \in PadOptions : Applied(o)
    /\ ret.pad_width[1] > 0
    /\ ret.pad_width[2] > 0
    /\ \E i \in 0 .. call.frames_logical.n - 1 : call.frames_logical.v[i] = UNUSED
    /\ ret.frames_logical.v[0] = PADDED

(***************************************************************************)
(* C12                                                                     *)
(***************************************************************************)
\* a crop policy was applied: one of the two crop options, or 'do_nothing'
\* with a fix_size box within the array
C12_Cropped ==
    \/ \E o \in CropOptions : Applied(o)
    \/ /\ PeakFound
       /\ call.fft_option = "do_nothing"
       /\ C6_BoxWithin(call.kwargs.fix_size, data.shape)

\* the first frame kept
C12_Lo ==
    IF call.fft_option = "crop_symmetric_ZYX"
    THEN ret.peak[1] - ret.data.shape[1] \div 2
    ELSE IF call.fft_option = "crop_asymmetric_ZYX"
    THEN data.shape[1] \div 2 - ret.data.shape[1] \div 2
    ELSE call.kwargs.fix_size[1]

\* the frame after the last frame kept
C12_Hi ==
    IF call.fft_option = "do_nothing" THEN call.kwargs.fix_size[2]
    ELSE C12_Lo + ret.data.shape[1]

\* C12: when a crop policy returns, the returned frames_logical has the length
\* of the one given, its entries outside the frames kept [lo, hi) are 0 and
\* its entries inside are those of the one given.
C12_CropRelabelsFrames ==
    (Returned /\ C12_Cropped) =>
        /\ ret.frames_logical.n = call.frames_logical.n
        /\ \A i \in 0 .. ret.frames_logical.n - 1 :
             ret.frames_logical.v[i] =
                 IF C12_Lo <= i /\ i < C12_Hi THEN call.frames_logical.v[i]
                 ELSE UNUSED

(***************************************************************************)
(* C13                                                                     *)
(***************************************************************************)
\* C13: when center_fft is given q_values = [qx, qz, qy] of the lengths of
\* the data axes and returns, the returned qx, qz and qy have the lengths of
\* axis 0, axis 1 and axis 2 of the returned data.
C13_QGridCoRegistered ==
    (/\ Returned
     /\ call.kwargs.q_values # <<>>
     /\ \A k \in 1 .. 3 : call.kwargs.q_values[k].n = data.shape[k]) =>
        /\ Len(ret.q_values) = 3
        /\ \A k \in 1 .. 3 : ret.q_values[k].n = ret.data.shape[k]

(***************************************************************************)
(* C14                                                                     *)
(***************************************************************************)
\* the slice of an axis of length n around its centre: <<start, stop>>
C14_Slice(n) ==
    <<n \div 2 - NearestAtMost(n) \div 2, n \div 2 + NearestAtMost(n) \div 2>>

\* C14: when 'crop_asymmetric_ZYX' returns, data and mask are the slice
\* [n/2 - n1/2, n/2 + n1/2) of every axis, n the length of the axis and n1
\* the largest FFT-valid length not above n, wherever the peak is; the shape
\* returned is (nz1, ny1, nx1) and the frames outside the z slice are 0.
C14_CropAsymmetricAroundCentre ==
    (Returned /\ Applied("crop_asymmetric_ZYX")) =>
        LET z == C14_Slice(data.shape[1])
            y == C14_Slice(data.shape[2])
            x == C14_Slice(data.shape[3])
        IN  /\ ret.data = Slice3(data, z[1], z[2], y[1], y[2], x[1], x[2])
            /\ ret.mask = Slice3(mask, z[1], z[2], y[1], y[2], x[1], x[2])
            /\ \A k \in 1 .. 3 : ret.data.shape[k] = NearestAtMost(data.shape[k])
            /\ \A i \in 0 .. ret.frames_logical.n - 1 :
                 (i < z[1] \/ i >= z[2]) => ret.frames_logical.v[i] = UNUSED

C14_Witness ==
    /\ Returned
    /\ Applied("crop_asymmetric_ZYX")
    /\ ret.data.shape[1] < data.shape[1]
    /\ ret.peak[1] # data.shape[1] \div 2
    /\ call.frames_logical.v[data.shape[1] - 1] = USED
    /\ ret.frames_logical.v[data.shape[1] - 1] = UNUSED

(***************************************************************************)
(* C15                                                                     *)
(***************************************************************************)
SymmetricOptions ==
    {"crop_symmetric_ZYX", "pad_symmetric_Z_crop_YX", "pad_symmetric_Z",
     "pad_symmetric_ZYX"}

\* the axes a symmetric option has cropped or padded
C15_Axes ==
    {k \in IF call.fft_option = "pad_symmetric_Z" THEN {1} ELSE {1, 2, 3} :
        ret.data.shape[k] # data.shape[k]}

\* the input voxel shown at voxel i of the output when the peak sits at
\* index N/2 of the axes cropped or padded
C15_Source(i) ==
    [k \in 1 .. 3 |->
        IF k \in C15_Axes THEN i[k] - ret.data.shape[k] \div 2 + ret.peak[k]
        ELSE i[k]]

\* C15: when a symmetric option returns, the output shows the input with the
\* voxel of the detected peak at index N/2 of every axis the option crops or
\* pads, N the output length of the axis, and zeros where the input ends.
C15_PeakCentred ==
    (Returned /\ \E o \in SymmetricOptions : Applied(o)) =>
        \A i \in Idx3(ret.data.shape) :
            LET src == C15_Source(i)
            IN  ret.data.v[i] = IF src \in Idx3(data.shape) THEN data.v[src] ELSE 0

(***************************************************************************)
(* The number utilities: what the claims speak of.                         *)
(***************************************************************************)
NumberCalled(function) == pc # "args" /\ call.function = function
OnInteger == call.number.kind = "int"

\* the integer given, and the integer returned
GivenInteger == call.number.items[1]
ReturnedInteger == ret.val.items[1]

IsPrime(p) == p > 1 /\ \A d \in 2 .. p - 1 : p % d # 0

\* the constraint on r: no prime factor above maxprime, and every required
\* divider divides r
Satisfies(r, maxprime, required_dividers) ==
    /\ \A p \in 2 .. r : (IsPrime(p) /\ r % p = 0) => p <= maxprime
    /\ \A k \in DOMAIN required_dividers : r % required_dividers[k] = 0

\* no integer at all satisfies the constraint: a required divider has a prime
\* factor above maxprime
Unsatisfiable(maxprime, required_dividers) ==
    \E k \in DOMAIN required_dividers :
        \E p \in 2 .. required_dividers[k] :
            IsPrime(p) /\ required_dividers[k] % p = 0 /\ p > maxprime

(***************************************************************************)
(* C16                                                                     *)
(***************************************************************************)
\* C16: for every integer n > 1, every maxprime and every required
\* dividers, higher_primes returns an integer r >= n that satisfies the
\* constraint.
C16_HigherPrimesSatisfies ==
    (NumberCalled("higher_primes") /\ OnInteger /\ GivenInteger > 1) =>
        /\ pc = "returned"
        /\ ret.val.kind = "int"
        /\ ReturnedInteger >= GivenInteger
        /\ Satisfies(ReturnedInteger, call.maxprime, call.required_dividers)

(***************************************************************************)
(* C17                                                                     *)
(***************************************************************************)
\* C17: higher_primes returns on every integer it accepts (n > 1 and
\* maxprime <= n); when no integer satisfies the constraint it returns n.
C17_HigherPrimesTerminates ==
    (/\ NumberCalled("higher_primes")
     /\ OnInteger
     /\ GivenInteger > 1
     /\ call.maxprime <= GivenInteger) =>
        /\ pc = "returned"
        /\ Unsatisfiable(call.maxprime, call.required_dividers) =>
               ReturnedInteger = GivenInteger

(***************************************************************************)
(* C18                                                                     *)
(***************************************************************************)
\* C18: for every integer n that smaller_primes accepts (n > 1 and
\* maxprime <= n), it returns r <= n; r satisfies the constraint, or r is 0
\* when no integer of 1 .. n satisfies it.
C18_SmallerPrimesSatisfies ==
    (/\ NumberCalled("smaller_primes")
     /\ OnInteger
     /\ GivenInteger > 1
     /\ call.maxprime <= GivenInteger) =>
        /\ pc = "returned"
        /\ ret.val.kind = "int"
        /\ ReturnedInteger <= GivenInteger
        /\ IF \E m \in 1 .. GivenInteger :
                  Satisfies(m, call.maxprime, call.required_dividers)
           THEN /\ ReturnedInteger >= 1
                /\ Satisfies(ReturnedInteger, call.maxprime, call.required_dividers)
           ELSE ReturnedInteger = 0

C18_Witness ==
    /\ NumberCalled("smaller_primes")
    /\ OnInteger
    /\ pc = "returned"
    /\ call.required_dividers # <<>>
    /\ ReturnedInteger >= 1
    /\ ReturnedInteger < GivenInteger - 1
    /\ Satisfies(ReturnedInteger + 1, call.maxprime, <<>>)

(***************************************************************************)
(* C19                                                                     *)
(***************************************************************************)
\* the result of the function called, on the integer n
C19_Scalar(n) ==
    IF call.function = "smaller_primes"
    THEN smaller_primes(n, call.maxprime, call.required_dividers)
    ELSE higher_primes(n, call.maxprime, call.required_dividers)

\* the function returns on every element of the sequence given
C19_ElementsReturn ==
    \A i \in DOMAIN call.number.items :
        /\ C19_Scalar(call.number.items[i]).exc = "none"
        /\ C19_Scalar(call.number.items[i]).val # -1

\* C19: given a list, a tuple or an array of integers on each of which it
\* returns, smaller_primes (and higher_primes) returns a container of the
\* same kind and length, whose i-th element is its result on the i-th
\* element given.
C19_ElementWise ==
    (/\ NumberCalled("smaller_primes") \/ NumberCalled("higher_primes")
     /\ call.number.kind \in {"list", "tuple", "ndarray"}
     /\ C19_ElementsReturn) =>
        /\ pc = "returned"
        /\ ret.val.kind = call.number.kind
        /\ Len(ret.val.items) = Len(call.number.items)
        /\ \A i \in DOMAIN call.number.items :
             ret.val.items[i] = C19_Scalar(call.number.items[i]).val

(***************************************************************************)
(* C20                                                                     *)
(***************************************************************************)
RECURSIVE SeqProduct(_)
SeqProduct(s) == IF s = <<>> THEN 1 ELSE Head(s) * SeqProduct(Tail(s))

\* s is the prime factors of n with multiplicity, in order
C20_PrimeFactors(s, n) ==
    /\ \A k \in DOMAIN s : IsPrime(s[k])
    /\ \A k \in 1 .. Len(s) - 1 : s[k] <= s[k + 1]
    /\ SeqProduct(s) = n

\* C20: primes(n) returns, for every positive integer n, the prime factors of
\* n with multiplicity in non-decreasing order, <<2, 2, 7>> for 28;
\* try_smaller_primes(28, 7, (2,)) is true and try_smaller_primes(28, 5, (2,))
\* is false.
C20_PrimesAreThePrimeFactors ==
    /\ (NumberCalled("primes") /\ OnInteger) =>
           /\ pc = "returned"
           /\ C20_PrimeFactors(ret.val, GivenInteger)
           /\ GivenInteger = 28 => ret.val = <<2, 2, 7>>
    /\ (/\ NumberCalled("try_smaller_primes")
        /\ call.number = IntValue(28)
        /\ call.required_dividers = <<2>>
        /\ call.maxprime \in {5, 7}) =>
           /\ pc = "returned"
           /\ ret.val = (call.maxprime = 7)

(***************************************************************************)
(* zero_pad called on its own: an array, the padding widths and the mask   *)
(* flag are drawn, then zero_pad is called on them.  data is the caller's  *)
(* array object, call.array its content when the call was made.            *)
(***************************************************************************)
\* an array whose voxels all differ, and differ from both fill values
MakeRamp(shape) ==
    [shape |-> shape,
     v |-> [i \in Idx3(shape) |-> 2 + 16 * i[1] + 4 * i[2] + i[3]]]

PadArrays ==
    {MakeRamp(sh) : sh \in {<<1, 1, 1>>, <<2, 1, 3>>, <<1, 2, 2>>, <<3, 2, 1>>}}
      \cup {Full3(<<2, 2, 2>>, 0), Full3(<<1, 2, 1>>, 1)}
      \cup {[shape |-> <<2, 2>>, v |-> [i \in (0 .. 1) \X (0 .. 1) |-> 2]]}

PaddingWidths ==
    {<<w[1], w[2], w[3], w[4], w[5], w[6]>> : w \in [1 .. 6 -> 0 .. MaxWidth]}
      \cup {<<-1, 1, 0, 0, 0, 0>>, <<0, 0, 1, -1, 0, 0>>, <<0, -1, 0, 0, -1, 0>>}

InitZeroPad ==
    /\ data \in PadArrays
    /\ mask = NoArray
    /\ frames_logical = NoFrames
    /\ q_values = <<>>
    /\ \E padding_width \in PaddingWidths, mask_flag \in BOOLEAN :
         call = [function |-> "", array |-> data, padding_width |-> padding_width,
                 mask_flag |-> mask_flag]
    /\ ret = Raise("")
    /\ pc = "args"

\* newobj = zero_pad(array, padding_width, mask_flag)
CallZeroPad ==
    /\ pc = "args"
    /\ call' = [call EXCEPT !.function = "zero_pad"]
    /\ ret' = zero_pad(data, call.padding_width, call.mask_flag)
    /\ pc' = IF ret'.exc = "none" THEN "returned" ELSE "raised"
    /\ UNCHANGED <<data, mask, frames_logical, q_values>>

NextZeroPad == CallZeroPad

SpecZeroPad == InitZeroPad /\ [][NextZeroPad]_vars

(***************************************************************************)
(* C21                                                                     *)
(***************************************************************************)
C21_OnArray ==
    /\ pc # "args"
    /\ call.function = "zero_pad"
    /\ Len(call.array.shape) = 3
    /\ \A k \in 1 .. 6 : call.padding_width[k] >= 0

\* C21: zero_pad(a, [z0,z1,y0,y1,x0,x1], mask_flag) on a 3D array of shape
\* (nz,ny,nx) returns an array of shape (nz+z0+z1, ny+y0+y1, nx+x0+x1) whose
\* block [z0:z0+nz, y0:y0+ny, x0:x0+nx] equals a and whose other elements are
\* the fill value (0, or 1 when mask_flag); a is not modified.
C21_ZeroPadRoundTrip ==
    C21_OnArray =>
        LET a == call.array
            w == call.padding_width
            fill == IF call.mask_flag THEN 1 ELSE 0
            inblock(i) == \A k \in 1 .. 3 :
                              w[2 * k - 1] <= i[k] /\ i[k] < w[2 * k - 1] + a.shape[k]
        IN  /\ pc = "returned"
            /\ ret.val.shape = <<a.shape[1] + w[1] + w[2], a.shape[2] + w[3] + w[4],
                                 a.shape[3] + w[5] + w[6]>>
            /\ DOMAIN ret.val.v = Idx3(ret.val.shape)
            /\ \A i \in Idx3(ret.val.shape) :
                 ret.val.v[i] = IF inblock(i)
                                THEN a.v[<<i[1] - w[1], i[2] - w[3], i[3] - w[5]>>]
                                ELSE fill
            /\ Slice3(ret.val, w[1], w[1] + a.shape[1], w[3], w[3] + a.shape[2],
                      w[5], w[5] + a.shape[3]) = a
            /\ data = a

\* an array of distinct voxels padded unequally on the two sides of every axis
C21_Witness ==
    /\ C21_OnArray
    /\ pc = "returned"
    /\ call.array = MakeRamp(<<2, 1, 3>>)
    /\ call.padding_width = <<1, 2, 0, 1, 2, 0>>
    /\ call.mask_flag
    /\ ret.val.v[<<1, 0, 2>>] = 2
    /\ ret.val.v[<<0, 0, 0>>] = 1

(***************************************************************************)
(* normalize_dataset called on its own: a 3D array, frames_logical, the    *)
(* raw monitor and norm_to_min are drawn, then normalize_dataset is called *)
(* on them.  data is the caller's array object, normalized in place.       *)
(***************************************************************************)
\* the counts of the monitor, frame after frame: 4, 7, 5, 8, 6, 9, ...
RawCount(i) == 4 + 3 * (i % 2) + (i \div 2)
RawMonitors == {[n |-> n, v |-> [i \in 0 .. n - 1 |-> FracOf(RawCount(i))]] :
                   n \in 0 .. MaxFrames + 1}

FramesLogicals ==
    UNION {{[n |-> n, v |-> f] : f \in [0 .. n - 1 -> {USED, UNUSED, PADDED}]} :
              n \in 0 .. MaxFrames}

MonitoredArrays ==
    {AsFloat(MakeRamp(<<nz, 1, 2>>)) : nz \in 1 .. MaxFrames}
      \cup {[shape |-> <<2, 2>>, v |-> [i \in (0 .. 1) \X (0 .. 1) |-> FracOf(2)]]}

InitNormalize ==
    /\ data \in MonitoredArrays
    /\ mask = NoArray
    /\ frames_logical \in FramesLogicals
    /\ q_values = <<>>
    /\ \E raw_monitor \in RawMonitors, norm_to_min \in BOOLEAN :
         call = [function |-> "", array |-> data, raw_monitor |-> raw_monitor,
                 norm_to_min |-> norm_to_min]
    /\ ret = NormalizeRaise("", "")
    /\ pc = "args"

\* data, monitor, title = normalize_dataset(data, raw_monitor, frames_logical,
\* norm_to_min): the array is normalized in place and returned
CallNormalizeDataset ==
    /\ pc = "args"
    /\ call' = [call EXCEPT !.function = "normalize_dataset"]
    /\ ret' = normalize_dataset(data, call.raw_monitor, frames_logical, call.norm_to_min)
    /\ data' = IF ret'.exc = "none" THEN ret'.array ELSE data
    /\ pc' = IF ret'.exc = "none" THEN "returned" ELSE "raised"
    /\ UNCHANGED <<mask, frames_logical, q_values>>

NextNormalize == CallNormalizeDataset

SpecNormalize == InitNormalize /\ [][NextNormalize]_vars

(***************************************************************************)
(* C22                                                                     *)
(***************************************************************************)
NormalizeCalled == pc # "args" /\ call.function = "normalize_dataset"
CountOf(fl, S) == Cardinality({i \in 0 .. fl.n - 1 : fl.v[i] \in S})

\* C22: normalize_dataset raises the ValueError 'The frame number and the
\* monitor data length are different' whenever raw_monitor is shorter than the
\* number of USED frames of frames_logical, and leaves the array unmodified.
C22_ShortMonitorIsLengthMismatch ==
    (/\ NormalizeCalled
     /\ Len(call.array.shape) = 3
     /\ call.raw_monitor.n < CountOf(frames_logical, {USED})) =>
        /\ pc = "raised"
        /\ ret.exc = "ValueError"
        /\ ret.msg = LengthMismatch
        /\ data = call.array

(***************************************************************************)
(* C23                                                                     *)
(***************************************************************************)
\* the number of entries of fl before idx whose value is in S
C23_Before(fl, idx, S) == Cardinality({i \in 0 .. idx - 1 : fl.v[i] \in S})

\* C23: normalize_dataset builds a monitor vector with one entry per
\* non-UNUSED entry of frames_logical, in order: a USED entry at idx takes
\* raw_monitor[idx - number of PADDED entries before idx], a PADDED entry
\* takes raw_monitor.min() (.max() when norm_to_min is False), UNUSED entries
\* contribute nothing; the returned monitor has array.shape[0] entries.
C23_MonitorAligned ==
    (NormalizeCalled /\ pc = "returned") =>
        LET fl == frames_logical
            raw == call.raw_monitor
        IN  /\ ret.built.n = CountOf(fl, {USED, PADDED})
            /\ DOMAIN ret.built.v = 0 .. ret.built.n - 1
            /\ \A idx \in 0 .. fl.n - 1 :
                 LET k == C23_Before(fl, idx, {USED, PADDED})
                 IN  /\ fl.v[idx] = USED =>
                           ret.built.v[k] = raw.v[idx - C23_Before(fl, idx, {PADDED})]
                     /\ fl.v[idx] = PADDED =>
                           ret.built.v[k] = IF call.norm_to_min THEN Min1(raw) ELSE Max1(raw)
            /\ ret.monitor.n = ret.built.n
            /\ ret.monitor.n = call.array.shape[1]
            /\ ret.monitor.n = data.shape[1]

\* a padded frame, an unused frame, then a used frame whose count is read
\* one place earlier in the raw monitor
C23_Witness ==
    /\ NormalizeCalled
    /\ pc = "returned"
    /\ frames_logical.n = 3
    /\ frames_logical.v = [i \in 0 .. 2 |-> IF i = 0 THEN PADDED ELSE IF i = 1 THEN UNUSED ELSE USED]
    /\ call.raw_monitor.n = 3
    /\ call.norm_to_min
    /\ ret.built.v[0] = FracOf(RawCount(0))
    /\ ret.built.v[1] = FracOf(RawCount(1))
    /\ ret.monitor.v[1] = Frac(RawCount(0), RawCount(1))

(***************************************************************************)
(* remove_hotpixels called on its own: data and mask of a detector of      *)
(* 2 x 2 pixels (one frame, or a stack of frames) and a hot-pixel map (one *)
(* map, or a stack of maps) are drawn, then remove_hotpixels is called.    *)
(***************************************************************************)
HotShape == <<2, 2>>

\* counts that all differ and are not 0
MakeCounts(shape) ==
    [shape |-> shape,
     v |-> [i \in IdxN(shape) |-> 5 + 4 * i[1] + (IF Len(i) > 1 THEN 2 * i[2] ELSE 0)
                                    + (IF Len(i) > 2 THEN i[3] ELSE 0)]]

HotData == {MakeCounts(HotShape), MakeCounts(<<2>> \o HotShape), MakeCounts(<<2>>)}

\* the mask before the call: nothing masked, or the last pixel masked already
HotMasks(shape) ==
    {FullN(shape, 0),
     [shape |-> shape,
      v |-> [i \in IdxN(shape) |-> IF \A k \in DOMAIN i : i[k] = shape[k] - 1 THEN 1 ELSE 0]],
     FullN(<<1, 2>>, 0)}

HotMaps ==
    {[shape |-> HotShape, v |-> f] : f \in [IdxN(HotShape) -> 0 .. MaxFlag]}
      \cup {[shape |-> <<MaxStack>> \o HotShape, v |-> f] :
               f \in [IdxN(<<MaxStack>> \o HotShape) -> {0, 1}]}
      \cup {FullN(<<1, 2>>, 1)}

InitHotpixels ==
    /\ data \in HotData
    /\ mask \in HotMasks(data.shape)
    /\ frames_logical = NoFrames
    /\ q_values = <<>>
    /\ \E hotpixels \in HotMaps :
         call = [function |-> "", data |-> data, mask |-> mask, hotpixels |-> hotpixels]
    /\ ret = HotRaise("", <<>>, <<>>)
    /\ pc = "args"

\* data, mask = remove_hotpixels(data=data, mask=mask, hotpixels=hotpixels)
CallRemoveHotpixels ==
    /\ pc = "args"
    /\ call' = [call EXCEPT !.function = "remove_hotpixels"]
    /\ ret' = remove_hotpixels(data, mask, call.hotpixels)
    /\ data' = ret'.data
    /\ mask' = ret'.mask
    /\ pc' = IF ret'.exc = "none" THEN "returned" ELSE "raised"
    /\ UNCHANGED <<frames_logical, q_values>>

NextHotpixels == CallRemoveHotpixels

SpecHotpixels == InitHotpixels /\ [][NextHotpixels]_vars

(***************************************************************************)
(* C25                                                                     *)
(***************************************************************************)
\* the pixel is flagged in the map, or in some map of the stack
C25_Flagged(hotpixels, p) ==
    IF Len(hotpixels.shape) = 3
    THEN \E k \in 0 .. hotpixels.shape[1] - 1 : hotpixels.v[<<k, p[1], p[2]>>] # 0
    ELSE hotpixels.v[p] # 0

C25_MapFits(hotpixels) ==
    <<hotpixels.shape[Len(hotpixels.shape) - 1], hotpixels.shape[Len(hotpixels.shape)]>> = HotShape

\* C25: remove_hotpixels sets data to 0 and mask to 1 at every pixel that is
\* non-zero in the hot-pixel map, in every frame of 3D data, also when the map
\* is a 3D stack summed along its first axis; the other pixels keep their
\* data and mask values.
C25_HotPixelsRemoved ==
    (/\ pc # "args"
     /\ call.function = "remove_hotpixels"
     /\ Len(call.data.shape) \in {2, 3}
     /\ call.mask.shape = call.data.shape
     /\ C25_MapFits(call.hotpixels)) =>
        /\ pc = "returned"
        /\ ret.data = data
        /\ ret.mask = mask
        /\ data.shape = call.data.shape
        /\ mask.shape = call.mask.shape
        /\ \A i \in IdxN(call.data.shape) :
             IF C25_Flagged(call.hotpixels, PixelOf(i))
             THEN data.v[i] = 0 /\ mask.v[i] = 1
             ELSE data.v[i] = call.data.v[i] /\ mask.v[i] = call.mask.v[i]

(***************************************************************************)
(* A session of mask editing: the caller holds original_data,              *)
(* original_mask, updated_data (data), the temporary mask updated_mask     *)
(* (mask) and the controls (ret), and passes them to update_mask (3D) or   *)
(* update_mask_2d (2D) on every key pressed, keeping what is returned.  A  *)
(* mouse click registers a vertex in xy unless flag_pause is set.  call    *)
(* holds the arrays before masking, their content when the session         *)
(* started, and the last event (the pointer is recorded as (0, 0) with the *)
(* keys that do not read it; the raster is drawn when 'p' commits a        *)
(* polygon).                                                               *)
(***************************************************************************)
MaskKeys == {"up", "down", "right", "left", "m", "b", "a", "p", "x", "q", "z"}

\* the mask before masking: nothing, or the first column of the detector
MaskedColumn(sh) ==
    [shape |-> sh, v |-> [i \in IdxN(sh) |-> IF i[Len(sh)] = 0 THEN 1 ELSE 0]]

MaskOriginals ==
    UNION {{[data |-> AsFloat(MakeCounts(sh)), mask |-> m] :
               m \in {FullN(sh, 0), MaskedColumn(sh)}} :
              sh \in {<<1, 2>>, <<1, 1, 2>>}}

InitMask ==
    /\ \E o \in MaskOriginals, dim \in 0 .. 2, width \in 0 .. 1 :
         /\ call = [function |-> IF Len(o.data.shape) = 3 THEN "update_mask"
                                 ELSE "update_mask_2d",
                    original_data |-> o.data, original_mask |-> o.mask,
                    pristine_data |-> o.data, pristine_mask |-> o.mask,
                    dim |-> IF Len(o.data.shape) = 3 THEN dim ELSE 0,
                    start_width |-> width, key |-> "", pix |-> 0, piy |-> 0]
         /\ data = o.data
         /\ mask = FullN(IF Len(o.data.shape) = 3 THEN view_shape(o.data.shape, dim)
                         ELSE o.data.shape, 0)
         /\ ret = MaskReturn(data, mask, FALSE, <<>>, width, 1, FALSE)
    /\ frames_logical = NoFrames
    /\ q_values = <<>>
    /\ pc = "editing"

\* the boolean arrays contains_points can give for the view
Rasters(shape) == {[shape |-> shape, v |-> f] : f \in [IdxN(shape) -> BOOLEAN]}

\* a key pressed with the pointer on pixel (pix, piy) of the view, 3D dataset
PressKeyMask ==
    /\ pc = "editing"
    /\ call.function = "update_mask"
    /\ \E key \in MaskKeys, piy \in 0 .. mask.shape[1] - 1, pix \in 0 .. mask.shape[2] - 1,
          ind \in Rasters(mask.shape) :
         /\ key = "up" => ret.width < MaxBrush
         /\ key = "right" => ret.vmax < MaxVmax
         /\ key \notin {"m", "b"} => pix = 0 /\ piy = 0
         /\ key # "p" \/ ret.xy = <<>> => ind = CHOOSE r \in Rasters(mask.shape) : TRUE
         /\ ret' = update_mask(key, pix, piy, call.original_data, call.original_mask, data,
                               mask, ret.flag_pause, ind, ret.xy, ret.width, call.dim,
                               ret.vmax)
         /\ call' = [call EXCEPT !.key = key, !.pix = pix, !.piy = piy]
    /\ data' = ret'.updated_data
    /\ mask' = ret'.updated_mask
    /\ pc' = IF ret'.stop_masking THEN "stopped" ELSE "editing"
    /\ UNCHANGED <<frames_logical, q_values>>

\* a key pressed with the pointer on pixel (pix, piy), 2D dataset
PressKeyMask2d ==
    /\ pc = "editing"
    /\ call.function = "update_mask_2d"
    /\ \E key \in MaskKeys, piy \in 0 .. mask.shape[1] - 1, pix \in 0 .. mask.shape[2] - 1,
          ind \in Rasters(mask.shape) :
         /\ key = "up" => ret.width < MaxBrush
         /\ key = "right" => ret.vmax < MaxVmax
         /\ key \notin {"m", "b"} => pix = 0 /\ piy = 0
         /\ key # "p" \/ ret.xy = <<>> => ind = CHOOSE r \in Rasters(mask.shape) : TRUE
         /\ ret' = update_mask_2d(key, pix, piy, call.original_data, call.original_mask,
                                  data, mask, ret.flag_pause, ind, ret.xy, ret.width,
                                  ret.vmax)
         /\ call' = [call EXCEPT !.key = key, !.pix = pix, !.piy = piy]
    /\ data' = ret'.updated_data
    /\ mask' = ret'.updated_mask
    /\ pc' = IF ret'.stop_masking THEN "stopped" ELSE "editing"
    /\ UNCHANGED <<frames_logical, q_values>>

\* a mouse click on pixel (pix, piy): the vertex is registered in xy
ClickMask ==
    /\ pc = "editing"
    /\ ~ret.flag_pause
    /\ Len(ret.xy) < MaxVertices
    /\ \E piy \in 0 .. mask.shape[1] - 1, pix \in 0 .. mask.shape[2] - 1 :
         /\ ret' = [ret EXCEPT !.xy = Append(ret.xy, <<pix, piy>>)]
         /\ call' = [call EXCEPT !.key = "click", !.pix = pix, !.piy = piy]
    /\ UNCHANGED <<data, mask, frames_logical, q_values, pc>>

NextMask ==
    \/ PressKeyMask
    \/ PressKeyMask2d
    \/ ClickMask

SpecMask == InitMask /\ [][NextMask]_vars

(***************************************************************************)
(* C24                                                                     *)
(***************************************************************************)
\* the last event was key, handled without an exception
MaskKeyHandled(key) == call.key = key /\ ret.exc = "none"

\* the value that marks a masked pixel in the restarted data
C24_Mark ==
    IF call.function = "update_mask"
    THEN Frac(1, 10 * call.pristine_data.shape[call.dim + 1])
    ELSE Frac(1, 10)

\* updated_data, the temporary mask and the polygon are as new
C24_Restarted ==
    /\ data.shape = call.pristine_data.shape
    /\ \A i \in IdxN(data.shape) :
         data.v[i] = IF call.pristine_mask.v[i] = 1 THEN C24_Mark
                     ELSE call.pristine_data.v[i]
    /\ mask.shape = IF call.function = "update_mask"
                    THEN view_shape(data.shape, call.dim) ELSE data.shape
    /\ \A i \in IdxN(mask.shape) : mask.v[i] = 0
    /\ ret.xy = <<>>
    /\ call.original_data = call.pristine_data
    /\ call.original_mask = call.pristine_mask

\* C24: in update_mask and update_mask_2d, after any sequence of events, the
\* restart event (key 'a') returns updated_data equal to a fresh copy of
\* original_data with the pixels of original_mask re-marked, an all-zero
\* temporary mask, an empty polygon vertex list and a reset brush window
\* (the width of the start of the session); original_data and original_mask
\* are not modified.
C24_RestartRestores ==
    MaskKeyHandled("a") => C24_Restarted /\ ret.width = call.start_width

(***************************************************************************)
(* The gap functions called on their own, on a frame of the detector they  *)
(* are written for, as the loaders call them after remove_hotpixels: the   *)
(* counts of the frame are not 0 but on a hot pixel, which is masked.      *)
(***************************************************************************)
\* frames of an Eiger2M, an Eiger4M and a Maxipix: (rows, columns)
Eiger2MShape == <<2164, 1030>>
Eiger4MShape == <<2167, 2070>>
MaxipixShape == <<516, 516>>

AllSlices(shape) ==
    eiger_data_slices(shape) \o eiger_mask_slices(shape) \o eiger4m_slices(shape)
      \o maxipix_slices(shape)

\* where the slices start and stop along axis k (1 rows, 2 columns)
SampleEdges(shape, k) ==
    LET sl == AllSlices(shape)
        e == {sl[j][2 * k - 1] : j \in DOMAIN sl} \cup {sl[j][2 * k] : j \in DOMAIN sl}
    IN  ({0, shape[k] - 1} \cup e \cup {x - 1 : x \in e}) \cap (0 .. shape[k] - 1)

SamplePixels(shape) == SampleEdges(shape, 1) \X SampleEdges(shape, 2)

\* a frame of counts 1..3, and 0 on the hot pixel if there is one
MakeFrame(shape, a, b, hot) ==
    [shape |-> shape,
     v |-> [i \in SamplePixels(shape) |->
              IF <<i>> = hot THEN 0 ELSE 1 + ((a * i[1] + b * i[2]) % 3)]]
MakeFrameMask(shape, hot) ==
    [shape |-> shape, v |-> [i \in SamplePixels(shape) |-> IF <<i>> = hot THEN 1 ELSE 0]]

HotPixelCases == {<<>>, <<<<0, 0>>>>, <<<<513, 80>>>>}

GapFunctions == {"mask_eiger", "mask_eiger4m", "mask_maxipix"}

DetectorShape(function) ==
    IF function = "mask_eiger" THEN Eiger2MShape
    ELSE IF function = "mask_eiger4m" THEN Eiger4MShape
    ELSE MaxipixShape

InitGaps ==
    /\ \E function \in GapFunctions, a \in 0 .. SmallN, b \in 0 .. SmallN,
          hot \in HotPixelCases, fits \in BOOLEAN :
         /\ data = MakeFrame(DetectorShape(function), a, b, hot)
         /\ mask = IF fits THEN MakeFrameMask(DetectorShape(function), hot)
                   ELSE MakeFrameMask(<<1, 1>>, hot)
         /\ call = [function |-> function, data |-> data, mask |-> mask]
    /\ frames_logical = NoFrames
    /\ q_values = <<>>
    /\ ret = GapRaise("", <<>>, <<>>)
    /\ pc = "args"

\* data, mask = mask_eiger(data=data, mask=mask)
CallMaskEiger ==
    /\ pc = "args"
    /\ call.function = "mask_eiger"
    /\ ret' = mask_eiger(data, mask)
    /\ data' = ret'.data
    /\ mask' = ret'.mask
    /\ pc' = IF ret'.exc = "none" THEN "returned" ELSE "raised"
    /\ UNCHANGED <<frames_logical, q_values, call>>

\* data, mask = mask_eiger4m(data=data, mask=mask)
CallMaskEiger4m ==
    /\ pc = "args"
    /\ call.function = "mask_eiger4m"
    /\ ret' = mask_eiger4m(data, mask)
    /\ data' = ret'.data
    /\ mask' = ret'.mask
    /\ pc' = IF ret'.exc = "none" THEN "returned" ELSE "raised"
    /\ UNCHANGED <<frames_logical, q_values, call>>

\* data, mask = mask_maxipix(data=data, mask=mask)
CallMaskMaxipix ==
    /\ pc = "args"
    /\ call.function = "mask_maxipix"
    /\ ret' = mask_maxipix(data, mask)
    /\ data' = ret'.data
    /\ mask' = ret'.mask
    /\ pc' = IF ret'.exc = "none" THEN "returned" ELSE "raised"
    /\ UNCHANGED <<frames_logical, q_values, call>>

NextGaps ==
    \/ CallMaskEiger
    \/ CallMaskEiger4m
    \/ CallMaskMaxipix

SpecGaps == InitGaps /\ [][NextGaps]_vars

(***************************************************************************)
(* C26                                                                     *)
(***************************************************************************)
\* C26: for mask_eiger, mask_eiger4m and mask_maxipix the pixels set to 0 in
\* data are the pixels set to 1 in mask: after the call every gap pixel has
\* mask == 1 and data == 0.
C26_GapsZeroedAndMasked ==
    (pc = "returned" /\ call.function \in GapFunctions) =>
        /\ DOMAIN data.v = DOMAIN mask.v
        /\ \A i \in DOMAIN mask.v :
             /\ (mask.v[i] = 1) <=> (data.v[i] = 0)
             /\ (mask.v[i] # call.mask.v[i]) <=> (data.v[i] # call.data.v[i])

(***************************************************************************)
(* A session of alien removal: the caller holds original_data,             *)
(* updated_data (data), updated_mask (mask) and the controls (ret), and    *)
(* passes them to update_aliens (3D) or update_aliens_2d (2D) on every key *)
(* pressed, keeping what is returned.  call holds the array before         *)
(* masking, its content when the session started, and the last event with  *)
(* the idx it was given (the pointer is recorded as (0, 0) with the keys   *)
(* that do not read it).                                                   *)
(***************************************************************************)
AliensKeys == {"u", "d", "up", "down", "right", "left", "m", "b", "q", "z"}

\* the counts before masking; one voxel of the 3D dataset holds no count
AliensOriginals ==
    {AsFloat(MakeCounts(<<2, 2>>)),
     LET a == AsFloat(MakeCounts(<<3, 1, 2>>))
     IN  [a EXCEPT !.v = [i \in DOMAIN a.v |-> IF i = <<1, 0, 1>> THEN FracOf(0) ELSE a.v[i]]]}

InitAliens ==
    /\ \E o \in AliensOriginals, dim \in 0 .. 2, width \in 0 .. 1 :
         /\ call = [function |-> IF Len(o.shape) = 3 THEN "update_aliens"
                                 ELSE "update_aliens_2d",
                    original_data |-> o, pristine_data |-> o,
                    dim |-> IF Len(o.shape) = 3 THEN dim ELSE 0,
                    key |-> "", pix |-> 0, piy |-> 0, idx |-> 0]
         /\ data = o
         /\ mask = FullN(o.shape, 0)
         /\ ret = IF Len(o.shape) = 3
                  THEN AliensReturn(data, mask, width, FracOf(1), 0, FALSE)
                  ELSE AliensReturn2d(data, mask, width, FracOf(1), FALSE)
    /\ frames_logical = NoFrames
    /\ q_values = <<>>
    /\ pc = "editing"

\* the shape of the frame plotted: updated_data[idx, :, :], [:, idx, :] or
\* [:, :, idx]
AliensView == view_shape(data.shape, call.dim)

\* a key pressed with the pointer on pixel (pix, piy) of the frame, 3D dataset
PressKeyAliens ==
    /\ pc = "editing"
    /\ call.function = "update_aliens"
    /\ \E key \in AliensKeys, piy \in 0 .. AliensView[1] - 1, pix \in 0 .. AliensView[2] - 1 :
         /\ key = "up" => ret.width < MaxBrush
         /\ key = "right" => FracLess(ret.vmax, FracOf(MaxVmax))
         /\ key \notin {"m", "b"} => pix = 0 /\ piy = 0
         /\ ret' = update_aliens(key, pix, piy, call.original_data, data, mask, ret.width,
                                 call.dim, ret.idx, ret.vmax)
         /\ call' = [call EXCEPT !.key = key, !.pix = pix, !.piy = piy, !.idx = ret.idx]
    /\ data' = ret'.updated_data
    /\ mask' = ret'.updated_mask
    /\ pc' = IF ret'.stop_masking THEN "stopped" ELSE "editing"
    /\ UNCHANGED <<frames_logical, q_values>>

\* a key pressed with the pointer on pixel (pix, piy), 2D dataset
PressKeyAliens2d ==
    /\ pc = "editing"
    /\ call.function = "update_aliens_2d"
    /\ \E key \in AliensKeys, piy \in 0 .. data.shape[1] - 1,
          pix \in 0 .. data.shape[2] - 1 :
         /\ key = "up" => ret.width < MaxBrush
         /\ key = "right" => FracLess(ret.vmax, FracOf(MaxVmax))
         /\ key \notin {"m", "b"} => pix = 0 /\ piy = 0
         /\ ret' = update_aliens_2d(key, pix, piy, call.original_data, data, mask,
                                    ret.width, ret.vmax)
         /\ call' = [call EXCEPT !.key = key, !.pix = pix, !.piy = piy]
    /\ data' = ret'.updated_data
    /\ mask' = ret'.updated_mask
    /\ pc' = IF ret'.stop_masking THEN "stopped" ELSE "editing"
    /\ UNCHANGED <<frames_logical, q_values>>

NextAliens ==
    \/ PressKeyAliens
    \/ PressKeyAliens2d

SpecAliens == InitAliens /\ [][NextAliens]_vars

(***************************************************************************)
(* C27                                                                     *)
(***************************************************************************)
\* the number of frames along the axis under review
C27_Frames == call.original_data.shape[call.dim + 1]

\* a step of update_aliens on key 'u' or 'd'
C27_Navigation ==
    /\ call'.function = "update_aliens"
    /\ call'.key \in {"u", "d"}
    /\ <<call, ret>> # <<call', ret'>>

C27_Step ==
    C27_Navigation =>
        /\ ret'.exc = "none"
        /\ ret'.idx \in 0 .. C27_Frames - 1
        /\ call'.key = "u" =>
              ret'.idx = IF ret.idx = C27_Frames - 1 THEN 0 ELSE ret.idx + 1
        /\ call'.key = "d" =>
              ret'.idx = IF ret.idx = 0 THEN C27_Frames - 1 ELSE ret.idx - 1
        /\ (call'.key = "d" /\ call.key = "u") => ret'.idx = call.idx
        /\ data' = data
        /\ mask' = mask

\* C27: in update_aliens the frame navigation wraps around along the active
\* axis: from 0 <= idx < shape[dim], after any 'u' and 'd' events idx stays in
\* [0, shape[dim]-1]; 'u' at the last frame gives 0, 'd' at frame 0 gives
\* shape[dim]-1, 'u' followed by 'd' returns to the same idx, and navigation
\* changes neither data nor mask.
C27_NavigationWraps == [][C27_Step]_vars

\* 'd' pressed on frame 0 of three, after a voxel was masked
C27_Witness ==
    /\ call.function = "update_aliens"
    /\ call.key = "d"
    /\ call.dim = 0
    /\ call.idx = 0
    /\ ret.idx = 2
    /\ \E i \in Idx3(mask.shape) : mask.v[i] = 1

(***************************************************************************)
(* C29                                                                     *)
(***************************************************************************)
AliensSession == call.function \in {"update_aliens", "update_aliens_2d"}

\* C29: in update_aliens and update_aliens_2d, from updated_data equal to
\* original_data and an all-zero mask, after any sequence of events at
\* in-range pointer positions every pixel has mask == 1 and data == 0, or
\* mask == 0 and data == original_data; original_data is never modified and
\* the brush width is never negative.
C29_MaskedOrOriginal ==
    AliensSession =>
        /\ ret.exc = "none"
        /\ data.shape = call.pristine_data.shape
        /\ mask.shape = call.pristine_data.shape
        /\ \A i \in IdxN(data.shape) :
             \/ mask.v[i] = 1 /\ data.v[i] = FracOf(0)
             \/ mask.v[i] = 0 /\ data.v[i] = call.pristine_data.v[i]
        /\ call.original_data = call.pristine_data
        /\ ret.width >= 0

\* 'b' pressed in the 3D dataset seen along axis 1, with a brush of one pixel,
\* on a voxel that was masked, while another voxel stays masked
C29_Witness ==
    /\ call.function = "update_aliens"
    /\ call.key = "b"
    /\ call.dim = 1
    /\ ret.width = 0
    /\ call.pix = 1 /\ call.piy = 2
    /\ mask.v[<<2, 0, 1>>] = 0
    /\ data.v[<<2, 0, 1>>] = call.pristine_data.v[<<2, 0, 1>>]
    /\ mask.v[<<0, 0, 0>>] = 1
    /\ data.v[<<0, 0, 0>>] = FracOf(0)

(***************************************************************************)
(* C30                                                                     *)
(***************************************************************************)
\* C30: in update_mask_2d erasing undoes painting: after any sequence of
\* events, every pixel whose temporary mask (updated_mask) is 0 and whose
\* original_mask is 0 holds its original_data value in updated_data; so 'm'
\* followed by 'b' at the same pointer position and brush width restores the
\* data of the brushed window.
C30_EraseRestoresData ==
    call.function = "update_mask_2d" =>
        \A i \in IdxN(data.shape) :
            (mask.v[i] = 0 /\ call.original_mask.v[i] = 0) =>
                data.v[i] = call.original_data.v[i]

(***************************************************************************)
(* center_fft followed by normalize_dataset: the dataset returned by       *)
(* center_fft is normalized with its frames_logical and the monitor of the *)
(* scan, one count per measured frame.  After the second call ret holds    *)
(* what both calls gave.                                                   *)
(***************************************************************************)
\* the monitor of a scan of n frames
ScanMonitor(n) == [n |-> n, v |-> [i \in 0 .. n - 1 |-> FracOf(RawCount(i))]]

\* data, monitor, title = normalize_dataset(array=data, raw_monitor=monitor,
\* frames_logical=frames_logical, norm_to_min=norm_to_min) on what center_fft
\* returned
NormalizeAfterCenterFft ==
    /\ pc = "returned"
    /\ \E norm_to_min \in BOOLEAN :
         ret' = [center_fft |-> ret,
                 normalize |-> normalize_dataset(AsFloat(ret.data),
                                                 ScanMonitor(call.frames_logical.n),
                                                 ret.frames_logical, norm_to_min)]
    /\ pc' = IF ret'.normalize.exc = "none" THEN "normalized" ELSE "normalize_raised"
    /\ UNCHANGED <<data, mask, frames_logical, q_values, call>>

NextPipeline ==
    \/ CallCenterFft
    \/ NormalizeAfterCenterFft

SpecPipeline == Init /\ [][NextPipeline]_vars

(***************************************************************************)
(* C28                                                                     *)
(***************************************************************************)
\* center_fft was given a frames_logical of data.shape[0] entries, all USED
C28_AllUsed ==
    /\ call.frames_logical.n = data.shape[1]
    /\ \A i \in 0 .. call.frames_logical.n - 1 : call.frames_logical.v[i] = USED

\* C28: after center_fft under any policy, called with an all-USED
\* frames_logical of length data.shape[0], the number of non-zero entries of
\* the returned frames_logical equals the returned data.shape[0], so that a
\* following normalize_dataset with a raw monitor of the original frame count
\* does not fail its frame-count check.
C28_FramesCountIsDataLength ==
    /\ (pc = "returned" /\ C28_AllUsed) =>
           CountOf(ret.frames_logical, {USED, PADDED}) = ret.data.shape[1]
    /\ (pc \in {"normalized", "normalize_raised"} /\ C28_AllUsed) =>
           /\ CountOf(ret.center_fft.frames_logical, {USED, PADDED})
                 = ret.center_fft.data.shape[1]
           /\ ret.normalize.msg # LengthMismatch

\* nine frames padded to twelve by pad_symmetric_Z, then normalized
C28_Witness ==
    /\ pc = "normalized"
    /\ C28_AllUsed
    /\ call.fft_option = "pad_symmetric_Z"
    /\ data.shape[1] = MaxN
    /\ ret.center_fft.data.shape[1] = MaxPad
    /\ CountOf(ret.center_fft.frames_logical, {PADDED}) = MaxPad - MaxN
    /\ CountOf(ret.center_fft.frames_logical, {USED}) = MaxN
    /\ ret.normalize.monitor.n = MaxPad

====
